---------------------------- MODULE Spec2Model ----------------------------
(***************************************************************************)
(* A model of auto-envparse (src/src/autoEnvParse.ts): the source loader,  *)
(* the template walker, the name derivation and the type coercion.         *)
(*                                                                         *)
(* Strings are sequences of one-character strings, so that the regular     *)
(* expressions, the JSON reader and writer, the boolean and number         *)
(* coercions and the flat-file reader are computed character by            *)
(* character, as the code computes them.                                   *)
(*                                                                         *)
(* JavaScript values are records tagged by k:                              *)
(*   [k |-> "str", v |-> chars]     [k |-> "num", v |-> Int]               *)
(*   [k |-> "nan"]  (the number NaN)  [k |-> "bool", v |-> BOOLEAN]        *)
(*   [k |-> "null"] [k |-> "undef"] [k |-> "re", v |-> source chars]       *)
(*   [k |-> "arr", v |-> <<values>>]                                       *)
(*   [k |-> "obj", cls |-> "Object" or a class name,                       *)
(*                 v |-> <<[n |-> name chars, v |-> value], ...>>]         *)
(* An object's fields are kept in the order for..in enumerates them. An    *)
(* object whose prototype holds enumerable fields has them in proto, a     *)
(* list of the same form.                                                  *)
(* Numbers are integers: the texts the model reads hold no '.', 'e' or     *)
(* "Infinity", which is the part of parseFloat and of JSON numbers that    *)
(* is modelled.                                                            *)
(***************************************************************************)
EXTENDS Integers, Sequences, FiniteSets, TLC

(***************************************************************************)
(* Characters and strings                                                  *)
(***************************************************************************)
LowerChars == <<"a","b","c","d","e","f","g","h","i","j","k","l","m",
                "n","o","p","q","r","s","t","u","v","w","x","y","z">>

UpperChars == <<"A","B","C","D","E","F","G","H","I","J","K","L","M",
                "N","O","P","Q","R","S","T","U","V","W","X","Y","Z">>

DigitChars == <<"0","1","2","3","4","5","6","7","8","9">>

Range(s) == { s[i] : i \in 1..Len(s) }

IsLower(c) == c \in Range(LowerChars)

IsUpper(c) == c \in Range(UpperChars)

IsDigit(c) == c \in Range(DigitChars)

\* the white space String.prototype.trim, parseFloat and JSON skip
IsSpace(c) == c \in {" ", "\t", "\n", "\r"}

IndexIn(s, c) == CHOOSE i \in 1..Len(s) : s[i] = c

DigitVal(c) == IndexIn(DigitChars, c) - 1

ToUpperChar(c) == IF IsLower(c) THEN UpperChars[IndexIn(LowerChars, c)] ELSE c

ToLowerChar(c) == IF IsUpper(c) THEN LowerChars[IndexIn(UpperChars, c)] ELSE c

toUpperCase(s) == [i \in 1..Len(s) |-> ToUpperChar(s[i])]

toLowerCase(s) == [i \in 1..Len(s) |-> ToLowerChar(s[i])]

\* s.substring(from - 1, to) of the code, 1-based and inclusive here
Sub(s, from, to) == IF from > to THEN <<>> ELSE SubSeq(s, from, to)

RECURSIVE TrimStart(_)
TrimStart(s) == IF s # <<>> /\ IsSpace(Head(s)) THEN TrimStart(Tail(s)) ELSE s

RECURSIVE TrimEnd(_)
TrimEnd(s) ==
    IF s # <<>> /\ IsSpace(s[Len(s)]) THEN TrimEnd(Sub(s, 1, Len(s) - 1)) ELSE s

trim(s) == TrimEnd(TrimStart(s))

startsWith(s, p) == Len(p) <= Len(s) /\ Sub(s, 1, Len(p)) = p

endsWith(s, p) == Len(p) <= Len(s) /\ Sub(s, Len(s) - Len(p) + 1, Len(s)) = p

\* Number.prototype.toString for the integers of the model
RECURSIVE NatToStr(_)
NatToStr(n) ==
    IF n < 10 THEN <<DigitChars[n + 1]>>
    ELSE NatToStr(n \div 10) \o <<DigitChars[(n % 10) + 1]>>

IntToStr(n) == IF n < 0 THEN <<"-">> \o NatToStr(0 - n) ELSE NatToStr(n)

\* the value of a run of decimal digits
RECURSIVE DigitsVal(_)
DigitsVal(s) ==
    IF s = <<>> THEN 0
    ELSE 10 * DigitsVal(Sub(s, 1, Len(s) - 1)) + DigitVal(s[Len(s)])

\* the length of the longest run of digits of s that starts at position i
RECURSIVE DigitRun(_, _)
DigitRun(s, i) ==
    IF i <= Len(s) /\ IsDigit(s[i]) THEN 1 + DigitRun(s, i + 1) ELSE 0

(***************************************************************************)
(* Name derivation                                                         *)
(***************************************************************************)
Max(S) == CHOOSE x \in S : \A y \in S : y <= x

\* A match of /([A-Z]+)([A-Z][a-z])/ that starts at position i: the position
\* of the second group, or 0 when there is no match at i. The greedy [A-Z]+
\* takes the longest run that still leaves an upper-case and a lower-case
\* letter for the second group.
CapsRunMatch(s, i) ==
    LET ends == { j \in (i + 1)..(Len(s) - 1) :
                    /\ \A m \in i..j : IsUpper(s[m])
                    /\ IsLower(s[j + 1]) }
    IN  IF ends = {} THEN 0 ELSE Max(ends)

\* .replace(/([A-Z]+)([A-Z][a-z])/g, '$1_$2'), scanning from position i
RECURSIVE ReplaceCapsRun(_, _)
ReplaceCapsRun(s, i) ==
    IF i > Len(s) THEN <<>>
    ELSE LET j == CapsRunMatch(s, i)
         IN  IF j # 0
             THEN Sub(s, i, j - 1) \o <<"_">> \o Sub(s, j, j + 1)
                      \o ReplaceCapsRun(s, j + 2)
             ELSE <<s[i]>> \o ReplaceCapsRun(s, i + 1)

\* .replace(/([a-z])([A-Z])/g, '$1_$2'), scanning from position i
RECURSIVE ReplaceCamel(_, _)
ReplaceCamel(s, i) ==
    IF i > Len(s) THEN <<>>
    ELSE IF i < Len(s) /\ IsLower(s[i]) /\ IsUpper(s[i + 1])
         THEN <<s[i], "_", s[i + 1]>> \o ReplaceCamel(s, i + 2)
         ELSE <<s[i]>> \o ReplaceCamel(s, i + 1)

\* toSnakeCase without its first replacement: a run of capitals is not split
toSnakeCaseCamelOnly(str) == toLowerCase(ReplaceCamel(str, 1))

toSnakeCase(str) == toLowerCase(ReplaceCamel(ReplaceCapsRun(str, 1), 1))

\* buildEnvVarName without its test of the prefix: the join is always made
buildEnvVarNameAlwaysJoined(prefix, key) ==
    prefix \o <<"_">> \o toUpperCase(toSnakeCase(key))

buildEnvVarName(prefix, key) ==
    LET snakeKey == toUpperCase(toSnakeCase(key))
    IN  IF prefix # <<>> THEN prefix \o <<"_">> \o snakeKey ELSE snakeKey

\* the key of parseObjectPropertiesRecursive without toSnakeCase: the field
\* name in capitals
childEnvVarNameUpperOnly(envVarName, key) ==
    envVarName \o <<"_">> \o toUpperCase(key)

\* `${envVarName}_${snakeKey}` of parseObjectPropertiesRecursive
childEnvVarName(envVarName, key) ==
    envVarName \o <<"_">> \o toUpperCase(toSnakeCase(key))

\* the test of the prefix with the flag i on the pattern: letters match in
\* either case
PrefixPatternAnyCase(prefix) ==
    /\ prefix # <<>>
    /\ \A i \in 1..Len(prefix) :
           IsUpper(prefix[i]) \/ IsLower(prefix[i]) \/ IsDigit(prefix[i])

\* /^[A-Z0-9]+$/.test(prefix)
PrefixPatternOk(prefix) ==
    /\ prefix # <<>>
    /\ \A i \in 1..Len(prefix) : IsUpper(prefix[i]) \/ IsDigit(prefix[i])

(***************************************************************************)
(* JavaScript values                                                       *)
(***************************************************************************)
Str(s) == [k |-> "str", v |-> s]

Num(n) == [k |-> "num", v |-> n]

NaN == [k |-> "nan"]

Bool(b) == [k |-> "bool", v |-> b]

Null == [k |-> "null"]

Undef == [k |-> "undef"]

RegExpOf(src) == [k |-> "re", v |-> src]

Arr(elems) == [k |-> "arr", v |-> elems]

Obj(cls, fields) == [k |-> "obj", cls |-> cls, v |-> fields]

\* an instance of a class (or Object.create(proto)) whose prototype holds
\* the enumerable fields proto
ObjWithProto(cls, fields, proto) ==
    [k |-> "obj", cls |-> cls, v |-> fields, proto |-> proto]

Fld(name, val) == [n |-> name, v |-> val]

\* typeof value
typeof(x) ==
    CASE x.k = "str" -> "string"
      [] x.k \in {"num", "nan"} -> "number"
      [] x.k = "bool" -> "boolean"
      [] x.k = "undef" -> "undefined"
      [] OTHER -> "object"

isArray(x) == x.k = "arr"

\* typeof x === 'object' && x !== null
IsObjectNotNull(x) == x.k \in {"obj", "arr", "re"}

\* typeof x === 'object' && x !== null && !Array.isArray(x)
IsNonArrayObject(x) == x.k \in {"obj", "re"}

\* the prototype is Object.prototype or null
isPlainObject(x) == x.k = "obj" /\ x.cls = "Object"

IsPrimitiveValue(x) == x.k \in {"str", "num", "nan", "bool", "null", "undef"}

\* the own enumerable fields of an object, in enumeration order; a RegExp has none
OwnFields(x) == IF x.k = "obj" THEN x.v ELSE <<>>

OwnKeys(x) == [i \in 1..Len(OwnFields(x)) |-> OwnFields(x)[i].n]

HasOwn(x, name) == \E i \in 1..Len(OwnFields(x)) : OwnFields(x)[i].n = name

\* the enumerable fields of the prototype of x
ProtoFields(x) == IF x.k = "obj" /\ "proto" \in DOMAIN x THEN x.proto ELSE <<>>

\* the keys `for (const key in x)` enumerates: the own ones, then those of
\* the prototype that no own field shadows
ForIn(x) ==
    OwnKeys(x) \o SelectSeq([i \in 1..Len(ProtoFields(x)) |-> ProtoFields(x)[i].n],
                            LAMBDA name : ~HasOwn(x, name))

\* the keys of a for..in loop that has no hasOwnProperty test
VisitedKeysInherited(x) == ForIn(x)

\* the keys of a for..in loop that pass
\*   if (!Object.prototype.hasOwnProperty.call(x, key)) continue
VisitedKeys(x) == SelectSeq(ForIn(x), LAMBDA key : HasOwn(x, key))

\* x[name]: the own field, else the field of the prototype, else undefined
Get(x, name) ==
    IF HasOwn(x, name)
    THEN OwnFields(x)[CHOOSE i \in 1..Len(OwnFields(x)) : OwnFields(x)[i].n = name].v
    ELSE IF \E i \in 1..Len(ProtoFields(x)) : ProtoFields(x)[i].n = name
    THEN ProtoFields(x)[CHOOSE i \in 1..Len(ProtoFields(x)) :
                            ProtoFields(x)[i].n = name].v
    ELSE Undef

\* an integer-like key ("0", "12"; not "007"): such keys enumerate first, ascending
IsIndexKey(name) ==
    /\ name # <<>>
    /\ \A i \in 1..Len(name) : IsDigit(name[i])
    /\ (Len(name) > 1 => name[1] # "0")

\* whether a field named a enumerates before a new field named b
EnumeratesBefore(a, b) ==
    IF IsIndexKey(b)
    THEN IsIndexKey(a) /\ DigitsVal(a) < DigitsVal(b)
    ELSE TRUE

\* x[name] = val: an existing field keeps its place, a new one takes its place
\* in the enumeration order
Set(x, name, val) ==
    IF HasOwn(x, name)
    THEN [x EXCEPT !.v = [i \in 1..Len(x.v) |->
                            IF x.v[i].n = name THEN Fld(name, val) ELSE x.v[i]]]
    ELSE LET before == Cardinality({ i \in 1..Len(x.v) : EnumeratesBefore(x.v[i].n, name) })
         IN  [x EXCEPT !.v = Sub(x.v, 1, before) \o <<Fld(name, val)>>
                                 \o Sub(x.v, before + 1, Len(x.v))]

(***************************************************************************)
(* Type coercion                                                           *)
(***************************************************************************)
TruthyWords == { <<"t","r","u","e">>, <<"1">>, <<"y","e","s">>, <<"o","n">> }

FalsyWords == { <<"f","a","l","s","e">>, <<"0">>, <<"n","o">>, <<"o","f","f">> }

\* parseBoolean without trim()
parseBooleanUntrimmed(value) == toLowerCase(value) \in TruthyWords

parseBoolean(value) ==
    LET normalized == trim(toLowerCase(value))
    IN  IF normalized \in TruthyWords THEN TRUE
        ELSE IF normalized \in FalsyWords THEN FALSE
        ELSE FALSE

\* parseFloat(value) on the texts of the model: white space, a sign, digits
parseNumber(value) ==
    LET t == TrimStart(value)
        signed == t # <<>> /\ t[1] \in {"-", "+"}
        from == IF signed THEN 2 ELSE 1
        n == DigitRun(t, from)
    IN  IF n = 0 THEN NaN
        ELSE IF signed /\ t[1] = "-"
             THEN Num(0 - DigitsVal(Sub(t, from, from + n - 1)))
             ELSE Num(DigitsVal(Sub(t, from, from + n - 1)))

coerceValue(value, type) ==
    CASE type = "boolean" -> Bool(parseBoolean(value))
      [] type = "number" -> parseNumber(value)
      [] OTHER -> Str(value)


(***************************************************************************)
(* JSON.parse and JSON.stringify                                           *)
(***************************************************************************)
\* the character at position i, "" past the end
At(s, i) == IF i >= 1 /\ i <= Len(s) THEN s[i] ELSE ""

\* whether the word w stands in s at position i
HasAt(s, i, w) == i + Len(w) - 1 <= Len(s) /\ Sub(s, i, i + Len(w) - 1) = w

RECURSIVE SkipWs(_, _)
SkipWs(s, i) == IF IsSpace(At(s, i)) THEN SkipWs(s, i + 1) ELSE i

\* a reader's result: the value read and the position after it
Read(val, pos) == [ok |-> TRUE, val |-> val, pos |-> pos]

ReadFail == [ok |-> FALSE, val |-> Null, pos |-> 0]

\* the characters of a JSON string whose opening quote precedes position i;
\* of the escapes, \" \\ and \/ are read
RECURSIVE JsonStringBody(_, _, _)
JsonStringBody(s, i, acc) ==
    LET c == At(s, i)
    IN  CASE c = "" -> ReadFail
          [] c = "\"" -> Read(acc, i + 1)
          [] c = "\\" ->
               IF At(s, i + 1) \in {"\"", "\\", "/"}
               THEN JsonStringBody(s, i + 2, Append(acc, At(s, i + 1)))
               ELSE ReadFail
          [] c \in {"\t", "\n", "\r"} -> ReadFail
          [] OTHER -> JsonStringBody(s, i + 1, Append(acc, c))

\* -? (0 | [1-9][0-9]*)
JsonNumber(s, i) ==
    LET neg == At(s, i) = "-"
        j == IF neg THEN i + 1 ELSE i
        n == IF At(s, j) = "0" THEN 1 ELSE DigitRun(s, j)
        abs == DigitsVal(Sub(s, j, j + n - 1))
    IN  IF n = 0 THEN ReadFail
        ELSE Read(Num(IF neg THEN 0 - abs ELSE abs), j + n)

RECURSIVE JsonValue(_, _)
RECURSIVE JsonMembers(_, _, _)
RECURSIVE JsonElements(_, _, _)

\* the members of an object after '{' or ',': "key" : value, then ',' or '}'
JsonMembers(s, i, acc) ==
    IF At(s, i) # "\"" THEN ReadFail
    ELSE LET key == JsonStringBody(s, i + 1, <<>>)
         IN  IF ~key.ok THEN ReadFail
             ELSE LET j == SkipWs(s, key.pos)
                  IN  IF At(s, j) # ":" THEN ReadFail
                      ELSE LET val == JsonValue(s, j + 1)
                           IN  IF ~val.ok THEN ReadFail
                               ELSE LET m == SkipWs(s, val.pos)
                                        next == Set(acc, key.val, val.val)
                                    IN  CASE At(s, m) = "," ->
                                               JsonMembers(s, SkipWs(s, m + 1), next)
                                          [] At(s, m) = "}" -> Read(next, m + 1)
                                          [] OTHER -> ReadFail

\* the elements of an array after '[' or ',': value, then ',' or ']'
JsonElements(s, i, acc) ==
    LET val == JsonValue(s, i)
    IN  IF ~val.ok THEN ReadFail
        ELSE LET m == SkipWs(s, val.pos)
                 next == Arr(Append(acc.v, val.val))
             IN  CASE At(s, m) = "," -> JsonElements(s, m + 1, next)
                   [] At(s, m) = "]" -> Read(next, m + 1)
                   [] OTHER -> ReadFail

JsonValue(s, i0) ==
    LET i == SkipWs(s, i0)
        c == At(s, i)
    IN  CASE c = "{" ->
               IF At(s, SkipWs(s, i + 1)) = "}"
               THEN Read(Obj("Object", <<>>), SkipWs(s, i + 1) + 1)
               ELSE JsonMembers(s, SkipWs(s, i + 1), Obj("Object", <<>>))
          [] c = "[" ->
               IF At(s, SkipWs(s, i + 1)) = "]"
               THEN Read(Arr(<<>>), SkipWs(s, i + 1) + 1)
               ELSE JsonElements(s, i + 1, Arr(<<>>))
          [] c = "\"" ->
               LET r == JsonStringBody(s, i + 1, <<>>)
               IN  IF r.ok THEN Read(Str(r.val), r.pos) ELSE ReadFail
          [] c = "t" ->
               IF HasAt(s, i, <<"t","r","u","e">>)
               THEN Read(Bool(TRUE), i + 4) ELSE ReadFail
          [] c = "f" ->
               IF HasAt(s, i, <<"f","a","l","s","e">>)
               THEN Read(Bool(FALSE), i + 5) ELSE ReadFail
          [] c = "n" ->
               IF HasAt(s, i, <<"n","u","l","l">>)
               THEN Read(Null, i + 4) ELSE ReadFail
          [] c = "-" \/ IsDigit(c) -> JsonNumber(s, i)
          [] OTHER -> ReadFail

\* JSON.parse(text): ok is FALSE where JSON.parse throws a SyntaxError
JsonParse(text) ==
    CHOOSE parsed \in
        { IF r.ok /\ SkipWs(text, r.pos) > Len(text)
          THEN [ok |-> TRUE, val |-> r.val]
          ELSE [ok |-> FALSE, val |-> Null] :
          r \in {JsonValue(text, 1)} } : TRUE

RECURSIVE JsonQuote(_)
JsonQuote(s) ==
    IF s = <<>> THEN <<>>
    ELSE (IF Head(s) \in {"\"", "\\"} THEN <<"\\", Head(s)>> ELSE <<Head(s)>>)
             \o JsonQuote(Tail(s))

RECURSIVE JsonStringify(_)
RECURSIVE StringifyFields(_, _, _)
RECURSIVE StringifyElements(_, _)

\* the fields from the i-th on; a field whose value is undefined is left out
StringifyFields(fields, i, first) ==
    IF i > Len(fields) THEN <<>>
    ELSE IF fields[i].v.k = "undef" THEN StringifyFields(fields, i + 1, first)
    ELSE (IF first THEN <<>> ELSE <<",">>)
             \o <<"\"">> \o JsonQuote(fields[i].n) \o <<"\"", ":">>
             \o JsonStringify(fields[i].v)
             \o StringifyFields(fields, i + 1, FALSE)

\* the elements from the i-th on; undefined is written as null
StringifyElements(elems, i) ==
    IF i > Len(elems) THEN <<>>
    ELSE (IF i = 1 THEN <<>> ELSE <<",">>)
             \o JsonStringify(elems[i])
             \o StringifyElements(elems, i + 1)

\* JSON.stringify(x) for an x that is not undefined itself
JsonStringify(x) ==
    CASE x.k = "str" -> <<"\"">> \o JsonQuote(x.v) \o <<"\"">>
      [] x.k = "num" -> IntToStr(x.v)
      [] x.k = "bool" -> IF x.v THEN <<"t","r","u","e">> ELSE <<"f","a","l","s","e">>
      [] x.k \in {"nan", "null", "undef"} -> <<"n","u","l","l">>
      [] x.k = "re" -> <<"{", "}">>
      [] x.k = "arr" -> <<"[">> \o StringifyElements(x.v, 1) \o <<"]">>
      [] OTHER -> <<"{">> \o StringifyFields(x.v, 1, TRUE) \o <<"}">>

\* JSON.parse(JSON.stringify(x))
JsonClone(x) == JsonParse(JsonStringify(x)).val


(***************************************************************************)
(* The flat map: a sequence of entries [k |-> key, v |-> value] with       *)
(* distinct keys, in insertion order                                       *)
(***************************************************************************)
Entry(key, value) == [k |-> key, v |-> value]

\* envSource[key] !== undefined
Defined(env, key) == \E i \in 1..Len(env) : env[i].k = key

\* envSource[key], for a key that is defined
Lookup(env, key) == env[CHOOSE i \in 1..Len(env) : env[i].k = key].v

\* envSource[key] is neither undefined nor ''
NonEmpty(env, key) == Defined(env, key) /\ Lookup(env, key) # <<>>

Keys(env) == { env[i].k : i \in 1..Len(env) }

\* merged[key] = value
Put(env, key, value) ==
    IF Defined(env, key)
    THEN [i \in 1..Len(env) |-> IF env[i].k = key THEN Entry(key, value) ELSE env[i]]
    ELSE Append(env, Entry(key, value))

\* Object.assign(merged, source) for two flat maps
RECURSIVE AssignEnv(_, _)
AssignEnv(merged, source) ==
    IF source = <<>> THEN merged
    ELSE AssignEnv(Put(merged, Head(source).k, Head(source).v), Tail(source))

(***************************************************************************)
(* The template walker                                                     *)
(***************************************************************************)
\* applyPrimitive without the test for undefined: a key that is absent
\* coerces like the empty string
applyPrimitiveAlways(target, key, envVarName, envSource) ==
    LET currentValue == Get(target, key)
        valueType == IF currentValue.k \in {"null", "undef"}
                     THEN "string" ELSE typeof(currentValue)
        envValue == IF Defined(envSource, envVarName)
                    THEN Lookup(envSource, envVarName) ELSE <<>>
    IN  Set(target, key, coerceValue(envValue, valueType))

\* applyPrimitive with the test the nested readers make: an empty value
\* counts as no value
applyPrimitiveNonEmpty(target, key, envVarName, envSource) ==
    IF NonEmpty(envSource, envVarName)
    THEN LET currentValue == Get(target, key)
             valueType == IF currentValue.k \in {"null", "undef"}
                          THEN "string" ELSE typeof(currentValue)
         IN  Set(target, key, coerceValue(Lookup(envSource, envVarName), valueType))
    ELSE target

applyPrimitive(target, key, envVarName, envSource) ==
    IF Defined(envSource, envVarName)
    THEN LET currentValue == Get(target, key)
             valueType == IF currentValue.k \in {"null", "undef"}
                          THEN "string" ELSE typeof(currentValue)
         IN  Set(target, key, coerceValue(Lookup(envSource, envVarName), valueType))
    ELSE target

\* key.match(new RegExp(`^${envVarName}_(\\d+)_`, 'i')): the index the key
\* names, or -1 when the key does not match. envVarName holds letters, digits
\* and '_' only, so it stands for itself in the pattern; the flag i makes the
\* letters match in either case.
matchArrayIndex(envVarName, key) ==
    LET p == Len(envVarName)
        n == DigitRun(key, p + 2)
    IN  IF /\ Len(key) > p
           /\ toLowerCase(Sub(key, 1, p)) = toLowerCase(envVarName)
           /\ key[p + 1] = "_"
           /\ n >= 1
           /\ At(key, p + 2 + n) = "_"
        THEN DigitsVal(Sub(key, p + 2, p + 1 + n))
        ELSE -1

\* the indices of the keys from the i-th on, added to the Set acc, which keeps
\* the order of insertion
RECURSIVE collectIndices(_, _, _, _)
collectIndices(envVarName, envSource, i, acc) ==
    IF i > Len(envSource) THEN acc
    ELSE LET m == matchArrayIndex(envVarName, envSource[i].k)
         IN  collectIndices(envVarName, envSource, i + 1,
                            IF m >= 0 /\ m \notin Range(acc) THEN Append(acc, m) ELSE acc)

\* Array.prototype.sort((a, b) => a - b) on distinct numbers
RECURSIVE sortAscending(_)
sortAscending(q) ==
    IF q = <<>> THEN <<>>
    ELSE LET i == CHOOSE i \in 1..Len(q) : \A j \in 1..Len(q) : q[i] <= q[j]
         IN  <<q[i]>> \o sortAscending(Sub(q, 1, i - 1) \o Sub(q, i + 1, Len(q)))

detectArrayIndices(envVarName, envSource) ==
    sortAscending(collectIndices(envVarName, envSource, 1, <<>>))

RECURSIVE parseObjectPropertiesRecursive(_, _, _, _)
RECURSIVE parseObjectPropertiesFrom(_, _, _, _, _)

\* the loop of parseObjectPropertiesRecursive from the i-th own key of target
parseObjectPropertiesFrom(target, envVarName, template, envSource, i) ==
    IF i > Len(OwnFields(target)) THEN target
    ELSE LET key == OwnFields(target)[i].n
             templateValue == Get(template, key)
             propertyEnvVarName == childEnvVarName(envVarName, key)
             next ==
                 IF IsNonArrayObject(templateValue)
                 THEN Set(target, key,
                          parseObjectPropertiesRecursive(Get(target, key),
                              propertyEnvVarName, templateValue, envSource))
                 ELSE IF NonEmpty(envSource, propertyEnvVarName)
                 THEN Set(target, key,
                          coerceValue(Lookup(envSource, propertyEnvVarName),
                                      typeof(templateValue)))
                 ELSE target
         IN  parseObjectPropertiesFrom(next, envVarName, template, envSource, i + 1)

parseObjectPropertiesRecursive(target, envVarName, template, envSource) ==
    parseObjectPropertiesFrom(target, envVarName, template, envSource, 1)

\* parseArrayElement with a primitive template coerced from the value at
\* the element's own key or at its key _VALUE
parseArrayElementCoerced(envVarName, template, envSource) ==
    IF IsNonArrayObject(template)
    THEN parseObjectPropertiesRecursive(JsonClone(template), envVarName,
                                        template, envSource)
    ELSE IF NonEmpty(envSource, envVarName \o <<"_","V","A","L","U","E">>)
    THEN coerceValue(Lookup(envSource, envVarName \o <<"_","V","A","L","U","E">>),
                     typeof(template))
    ELSE template

parseArrayElement(envVarName, template, envSource) ==
    IF IsNonArrayObject(template)
    THEN parseObjectPropertiesRecursive(JsonClone(template), envVarName,
                                        template, envSource)
    ELSE template

\* String(p), which new RegExp(p) applies to a parsed JSON value
RECURSIVE ToStringJS(_)
RECURSIVE JoinElements(_, _)
JoinElements(elems, i) ==
    IF i > Len(elems) THEN <<>>
    ELSE (IF i = 1 THEN <<>> ELSE <<",">>)
             \o (IF elems[i].k \in {"null", "undef"} THEN <<>> ELSE ToStringJS(elems[i]))
             \o JoinElements(elems, i + 1)

ToStringJS(x) ==
    CASE x.k \in {"str", "re"} -> x.v
      [] x.k = "num" -> IntToStr(x.v)
      [] x.k = "nan" -> <<"N","a","N">>
      [] x.k = "bool" -> IF x.v THEN <<"t","r","u","e">> ELSE <<"f","a","l","s","e">>
      [] x.k = "null" -> <<"n","u","l","l">>
      [] x.k = "undef" -> <<"u","n","d","e","f","i","n","e","d">>
      [] x.k = "arr" -> JoinElements(x.v, 1)
      [] OTHER -> <<"[","o","b","j","e","c","t"," ","O","b","j","e","c","t","]">>

\* whether new RegExp(source) succeeds, for the patterns of the model: it
\* throws on a quantifier with nothing to repeat, on a character class that
\* is not closed and on parentheses that do not pair
RegExpSourceOk(source) ==
    LET opens == Cardinality({ i \in 1..Len(source) : source[i] = "(" })
        closes == Cardinality({ i \in 1..Len(source) : source[i] = ")" })
    IN  /\ At(source, 1) \notin {"*", "+", "?"}
        /\ \A i \in 1..Len(source) :
               source[i] = "[" => \E j \in (i + 1)..Len(source) : source[j] = "]"
        /\ opens = closes

\* applyArray with the two formats tried in the other order: the JSON array
\* at envVarName first, the positional keys when there is none
applyArrayJsonFirst(target, key, envVarName, envSource) ==
    LET currentArray == Get(target, key)
        isRegExpArray == \A i \in 1..Len(currentArray.v) : currentArray.v[i].k = "re"
        indices == IF isRegExpArray THEN <<>>
                   ELSE detectArrayIndices(envVarName, envSource)
        template == currentArray.v[1]
        newArray == [p \in 1..Len(indices) |->
                        parseArrayElement(envVarName \o <<"_">> \o IntToStr(indices[p]),
                                          template, envSource)]
        parsed == JsonParse(Lookup(envSource, envVarName))
        usable == NonEmpty(envSource, envVarName) /\ parsed.ok /\ isArray(parsed.val)
    IN  IF ~isArray(currentArray) \/ Len(currentArray.v) = 0 THEN target
        ELSE IF usable /\ ~isRegExpArray THEN Set(target, key, parsed.val)
        ELSE IF Len(indices) > 0 THEN Set(target, key, Arr(newArray))
        ELSE IF ~usable THEN target
        ELSE IF \A i \in 1..Len(parsed.val.v) :
                    RegExpSourceOk(ToStringJS(parsed.val.v[i]))
        THEN Set(target, key,
                 Arr([i \in 1..Len(parsed.val.v) |->
                         RegExpOf(ToStringJS(parsed.val.v[i]))]))
        ELSE target

applyArray(target, key, envVarName, envSource) ==
    LET currentArray == Get(target, key)
        isRegExpArray == \A i \in 1..Len(currentArray.v) : currentArray.v[i].k = "re"
        indices == IF isRegExpArray THEN <<>>
                   ELSE detectArrayIndices(envVarName, envSource)
        template == currentArray.v[1]
        newArray == [p \in 1..Len(indices) |->
                        parseArrayElement(envVarName \o <<"_">> \o IntToStr(indices[p]),
                                          template, envSource)]
    IN  IF ~isArray(currentArray) \/ Len(currentArray.v) = 0 THEN target
        ELSE IF Len(indices) > 0 THEN Set(target, key, Arr(newArray))
        ELSE IF ~NonEmpty(envSource, envVarName) THEN target
        ELSE CHOOSE after \in
                 { IF ~parsed.ok \/ ~isArray(parsed.val) THEN target
                   ELSE IF isRegExpArray
                   THEN IF \A i \in 1..Len(parsed.val.v) :
                               RegExpSourceOk(ToStringJS(parsed.val.v[i]))
                        THEN Set(target, key,
                                 Arr([i \in 1..Len(parsed.val.v) |->
                                         RegExpOf(ToStringJS(parsed.val.v[i]))]))
                        ELSE target
                   ELSE Set(target, key, parsed.val) :
                   parsed \in {JsonParse(Lookup(envSource, envVarName))} } : TRUE

\* the own enumerable fields Object.assign copies from a parsed JSON value:
\* an array's are its indices
SourceFields(parsed) ==
    IF parsed.k = "arr"
    THEN [i \in 1..Len(parsed.v) |-> Fld(IntToStr(i - 1), parsed.v[i])]
    ELSE OwnFields(parsed)

RECURSIVE assignFields(_, _)
assignFields(value, fields) ==
    IF fields = <<>> THEN value
    ELSE assignFields(Set(value, Head(fields).n, Head(fields).v), Tail(fields))

\* Object.assign(value, parsed)
ObjectAssign(value, parsed) == assignFields(value, SourceFields(parsed))

\* "Try JSON first" of applyNestedObject and applyComplexObject: value after
\* the structured string at envVarName, if there is a usable one, is merged in
mergeStructured(value, envVarName, envSource) ==
    IF NonEmpty(envSource, envVarName)
    THEN CHOOSE merged \in
             { IF parsed.ok /\ IsObjectNotNull(parsed.val)
               THEN ObjectAssign(value, parsed.val)
               ELSE value :
               parsed \in {JsonParse(Lookup(envSource, envVarName))} } : TRUE
    ELSE value

RECURSIVE loadNestedFromEnv(_, _, _)
RECURSIVE loadNestedFrom(_, _, _, _, _)

\* the loop of loadNestedFromEnv from the i-th own key of defaultValue
loadNestedFrom(prefix, defaultValue, envSource, result, i) ==
    IF i > Len(OwnFields(defaultValue)) THEN result
    ELSE LET key == OwnFields(defaultValue)[i].n
             value == OwnFields(defaultValue)[i].v
             envKey == buildEnvVarName(prefix, key)
             next ==
                 IF isPlainObject(value)
                 THEN Set(result, key, loadNestedFromEnv(envKey, value, envSource))
                 ELSE IF NonEmpty(envSource, envKey)
                 THEN Set(result, key,
                          coerceValue(Lookup(envSource, envKey), typeof(value)))
                 ELSE result
         IN  loadNestedFrom(prefix, defaultValue, envSource, next, i + 1)

loadNestedFromEnv(prefix, defaultValue, envSource) ==
    loadNestedFrom(prefix, defaultValue, envSource, JsonClone(defaultValue), 1)

\* a call of loadNestedFromEnv with `const result = defaultValue` in place
\* of the clone: the writes to result are writes to the argument
loadNestedFromEnvInPlace(prefix, defaultValue, envSource) ==
    LET result == loadNestedFrom(prefix, defaultValue, envSource, defaultValue, 1)
    IN  [result |-> result, defaultValue |-> result, fresh |-> FALSE]

\* a call of loadNestedFromEnv as its caller sees it: the object returned,
\* the argument after the call, and whether the object returned is a new
\* one. The function writes to result only (result[key] = ...), and result
\* is the object JSON.parse built.
loadNestedFromEnvCall(prefix, defaultValue, envSource) ==
    [result |-> loadNestedFromEnv(prefix, defaultValue, envSource),
     defaultValue |-> defaultValue, fresh |-> TRUE]

applyNestedObject(target, key, envVarName, envSource) ==
    LET value == mergeStructured(Get(target, key), envVarName, envSource)
    IN  Set(target, key, loadNestedFromEnv(envVarName, value, envSource))

RECURSIVE applyComplexObject(_, _, _)
RECURSIVE applyComplexFrom(_, _, _, _)

\* the loop of applyComplexObject from the i-th own key of value
applyComplexFrom(envVarName, value, envSource, i) ==
    IF i > Len(VisitedKeys(value)) THEN value
    ELSE LET nestedKey == VisitedKeys(value)[i]
             nestedProp == Get(value, nestedKey)
             nestedEnvKey == buildEnvVarName(envVarName, nestedKey)
             next ==
                 IF IsNonArrayObject(nestedProp)
                 THEN Set(value, nestedKey,
                          applyComplexObject(nestedEnvKey, nestedProp, envSource))
                 ELSE IF NonEmpty(envSource, nestedEnvKey)
                 THEN Set(value, nestedKey,
                          coerceValue(Lookup(envSource, nestedEnvKey), typeof(nestedProp)))
                 ELSE value
         IN  applyComplexFrom(envVarName, next, envSource, i + 1)

\* applyComplexObject without its "Try JSON first" step: the dot-notation
\* loop only
applyComplexObjectDotOnly(envVarName, value, envSource) ==
    IF value.k = "re" THEN value
    ELSE applyComplexFrom(envVarName, value, envSource, 1)

\* the object value after applyComplexObject, which changes it in place; a
\* RegExp has no own fields and none is given one
applyComplexObject(envVarName, value, envSource) ==
    IF value.k = "re" THEN value
    ELSE applyComplexFrom(envVarName,
                          mergeStructured(value, envVarName, envSource),
                          envSource, 1)

\* applyArray with the value at envVarName parsed whether or not positional
\* keys were found: the keys the warnings of its catch block name
applyArrayWarningsJsonRead(currentArray, envVarName, envSource) ==
    IF NonEmpty(envSource, envVarName) /\ ~JsonParse(Lookup(envSource, envVarName)).ok
    THEN <<envVarName>>
    ELSE <<>>

\* the keys the warnings of applyArray name: its catch block is entered when
\* JSON.parse throws and when new RegExp(p) throws for a parsed element
applyArrayWarnings(currentArray, envVarName, envSource) ==
    LET isRegExpArray == \A i \in 1..Len(currentArray.v) : currentArray.v[i].k = "re"
        indices == IF isRegExpArray THEN <<>>
                   ELSE detectArrayIndices(envVarName, envSource)
    IN  IF ~isArray(currentArray) \/ Len(currentArray.v) = 0 THEN <<>>
        ELSE IF Len(indices) > 0 THEN <<>>
        ELSE IF ~NonEmpty(envSource, envVarName) THEN <<>>
        ELSE CHOOSE warned \in
                 { IF ~parsed.ok THEN <<envVarName>>
                   ELSE IF /\ isArray(parsed.val)
                           /\ isRegExpArray
                           /\ \E i \in 1..Len(parsed.val.v) :
                                  ~RegExpSourceOk(ToStringJS(parsed.val.v[i]))
                   THEN <<envVarName>>
                   ELSE <<>> :
                   parsed \in {JsonParse(Lookup(envSource, envVarName))} } : TRUE

\* the keys the warnings of "Try JSON first" name, in applyNestedObject and
\* applyComplexObject
mergeWarnings(envVarName, envSource) ==
    IF NonEmpty(envSource, envVarName) /\ ~JsonParse(Lookup(envSource, envVarName)).ok
    THEN <<envVarName>>
    ELSE <<>>

RECURSIVE applyComplexWarnings(_, _, _)
RECURSIVE applyComplexWarningsFrom(_, _, _, _)

\* the warnings of the loop of applyComplexObject from the i-th own key
applyComplexWarningsFrom(envVarName, value, envSource, i) ==
    IF i > Len(VisitedKeys(value)) THEN <<>>
    ELSE LET nestedKey == VisitedKeys(value)[i]
             nestedProp == Get(value, nestedKey)
             nestedEnvKey == buildEnvVarName(envVarName, nestedKey)
         IN  (IF IsNonArrayObject(nestedProp)
              THEN applyComplexWarnings(nestedEnvKey, nestedProp, envSource)
              ELSE <<>>)
                 \o applyComplexWarningsFrom(envVarName, value, envSource, i + 1)

\* the keys the warnings of applyComplexObject name, in the order emitted
applyComplexWarnings(envVarName, value, envSource) ==
    IF value.k = "re" THEN <<>>
    ELSE mergeWarnings(envVarName, envSource)
             \o CHOOSE below \in
                    { applyComplexWarningsFrom(envVarName, merged, envSource, 1) :
                      merged \in {mergeStructured(value, envVarName, envSource)} } : TRUE

(***************************************************************************)
(* parseObject. The walk is a fold over the own keys of the target; its    *)
(* state holds the target, the calls made to override callbacks, the keys   *)
(* named by the warnings written so far and the error thrown. The warnings *)
(* of parseNumber name a value, not a key, and are not kept.               *)
(***************************************************************************)
Walk(target, calls, err) ==
    [target |-> target, calls |-> calls, err |-> err, warnings |-> <<>>]

\* a thrown Error: its kind and the text its message quotes
Err(kind, arg) == [kind |-> kind, arg |-> arg]

\* no error: the call returned
NoError == Err("none", <<>>)

\* An override callback. A spy is a callback of the caller that changes
\* nothing; the other two are the closures enumValidator and transform return.
Spy == [kind |-> "spy", propertyKey |-> <<>>, allowedValues |-> <<>>,
        caseSensitive |-> TRUE, fn |-> "none"]

\* AutoEnvParse.enumValidator(propertyKey, allowedValues, {caseSensitive})
enumValidator(propertyKey, allowedValues, caseSensitive) ==
    [kind |-> "enum", propertyKey |-> propertyKey, allowedValues |-> allowedValues,
     caseSensitive |-> caseSensitive, fn |-> "none"]

\* AutoEnvParse.transform(propertyKey, fn)
transform(propertyKey, fn) ==
    [kind |-> "transform", propertyKey |-> propertyKey, allowedValues |-> <<>>,
     caseSensitive |-> TRUE, fn |-> fn]

\* fn(value) for the transform functions of the model. "strictInt" is
\*   (val) => { if (!/^\d+$/.test(val)) throw new Error('bad'); return parseInt(val, 10) }
applyFn(fn, value) ==
    IF value # <<>> /\ \A i \in 1..Len(value) : IsDigit(value[i])
    THEN [ok |-> TRUE, val |-> Num(DigitsVal(value))]
    ELSE [ok |-> FALSE, val |-> Undef]

\* allowed.indexOf(checkValue), counted from 1; 0 when it is not there
indexOf(allowed, checkValue) ==
    IF \E i \in 1..Len(allowed) : allowed[i] = checkValue
    THEN CHOOSE i \in 1..Len(allowed) :
             allowed[i] = checkValue /\ \A j \in 1..(i - 1) : allowed[j] # checkValue
    ELSE 0

\* the closure enumValidator returns, called with (target, envVarName). It
\* reads process.env, not the flat map of the call.
runEnumValidator(override, st, envVarName, processEnv) ==
    IF ~NonEmpty(processEnv, envVarName) THEN st
    ELSE LET value == Lookup(processEnv, envVarName)
             checkValue == IF override.caseSensitive THEN value ELSE toLowerCase(value)
             allowed == IF override.caseSensitive THEN override.allowedValues
                        ELSE [i \in 1..Len(override.allowedValues) |->
                                 toLowerCase(override.allowedValues[i])]
             matchIndex == indexOf(allowed, checkValue)
         IN  IF matchIndex > 0
             THEN [st EXCEPT !.target = Set(@, override.propertyKey,
                                            Str(override.allowedValues[matchIndex]))]
             ELSE [st EXCEPT !.err = Err("InvalidEnum",
                                         envVarName \o <<":", " ">> \o value)]

\* the closure transform returns, called with (target, envVarName). It reads
\* process.env, not the flat map of the call.
runTransform(override, st, envVarName, processEnv) ==
    IF ~Defined(processEnv, envVarName) THEN st
    ELSE LET result == applyFn(override.fn, Lookup(processEnv, envVarName))
         IN  IF result.ok
             THEN [st EXCEPT !.target = Set(@, override.propertyKey, result.val)]
             ELSE [st EXCEPT !.warnings = Append(@, envVarName)]

\* overrides.get(key)(target, envVarName). The call is recorded with its
\* arguments (the target as it is at the call), then the callback runs.
invokeOverride(override, st, key, envVarName, processEnv) ==
    LET called == [st EXCEPT !.calls =
                       Append(@, [field |-> key, target |-> st.target,
                                  envVarName |-> envVarName])]
    IN  CASE override.kind = "enum" ->
               runEnumValidator(override, called, envVarName, processEnv)
          [] override.kind = "transform" ->
               runTransform(override, called, envVarName, processEnv)
          [] OTHER -> called

\* the branches of parseObject for a field that has no override
applyField(target, key, envVarName, envSource) ==
    LET value == Get(target, key)
    IN  CASE value.k \in {"null", "undef"} ->
               applyPrimitive(target, key, envVarName, envSource)
          [] isArray(value) -> applyArray(target, key, envVarName, envSource)
          [] isPlainObject(value) ->
               applyNestedObject(target, key, envVarName, envSource)
          [] typeof(value) = "object" ->
               Set(target, key, applyComplexObject(envVarName, value, envSource))
          [] OTHER -> applyPrimitive(target, key, envVarName, envSource)

\* the keys named by the warnings those branches emit for a structured
\* string that cannot be used
fieldWarnings(target, key, envVarName, envSource) ==
    LET value == Get(target, key)
    IN  CASE value.k \in {"null", "undef"} -> <<>>
          [] isArray(value) -> applyArrayWarnings(value, envVarName, envSource)
          [] isPlainObject(value) -> mergeWarnings(envVarName, envSource)
          [] typeof(value) = "object" ->
               applyComplexWarnings(envVarName, value, envSource)
          [] OTHER -> <<>>

\* a pass of the loop that does not skip the field after its override ran
parseFieldThenApply(st, key, prefix, overrides, envSource, processEnv) ==
    LET envVarName == buildEnvVarName(prefix, key)
        called == IF key \in DOMAIN overrides
                  THEN invokeOverride(overrides[key], st, key, envVarName, processEnv)
                  ELSE st
    IN  [called EXCEPT !.target = applyField(st.target, key, envVarName, envSource)]

\* one pass of the loop of parseObject, for the own key `key`
parseField(st, key, prefix, overrides, envSource, processEnv) ==
    LET envVarName == buildEnvVarName(prefix, key)
    IN  IF key \in DOMAIN overrides
        THEN invokeOverride(overrides[key], st, key, envVarName, processEnv)
        ELSE [st EXCEPT !.target = applyField(st.target, key, envVarName, envSource),
                        !.warnings = @ \o fieldWarnings(st.target, key, envVarName,
                                                        envSource)]

\* the loop from the i-th key on; now is the state the passes before left
RECURSIVE parseFieldsFrom(_, _, _, _, _, _, _)
parseFieldsFrom(st, keys, i, prefix, overrides, envSource, processEnv) ==
    CHOOSE after \in
        { IF i > Len(keys) \/ now.err # NoError THEN now
          ELSE parseFieldsFrom(parseField(now, keys[i], prefix, overrides,
                                          envSource, processEnv),
                               keys, i + 1, prefix, overrides, envSource, processEnv) :
          now \in {st} } : TRUE

\* parseObject run on a copy that is written back only when the walk
\* returns: an error leaves the target as it was
parseObjectAtomic(target, prefix, overrides, envSource, processEnv) ==
    IF prefix # <<>> /\ ~PrefixPatternOk(prefix)
    THEN Walk(target, <<>>, Err("InvalidPrefix", prefix))
    ELSE LET walked == parseFieldsFrom(Walk(target, <<>>, NoError),
                                       VisitedKeys(target), 1,
                                       prefix, overrides, envSource, processEnv)
         IN  IF walked.err = NoError THEN walked
             ELSE [walked EXCEPT !.target = target]

\* processEnv is the process.env the override helpers close over
parseObject(target, prefix, overrides, envSource, processEnv) ==
    IF prefix # <<>> /\ ~PrefixPatternOk(prefix)
    THEN Walk(target, <<>>, Err("InvalidPrefix", prefix))
    ELSE parseFieldsFrom(Walk(target, <<>>, NoError), VisitedKeys(target), 1,
                         prefix, overrides, envSource, processEnv)

(***************************************************************************)
(* The source loader                                                       *)
(***************************************************************************)
\* s.split(sep) for a one-character separator
RECURSIVE split(_, _)
split(s, sep) ==
    IF \A i \in 1..Len(s) : s[i] # sep THEN <<s>>
    ELSE LET i == CHOOSE i \in 1..Len(s) :
                      s[i] = sep /\ \A j \in 1..(i - 1) : s[j] # sep
         IN  <<Sub(s, 1, i - 1)>> \o split(Sub(s, i + 1, Len(s)), sep)

\* value.substring(1, value.length - 1): substring swaps its arguments when
\* the first is the greater, which it is for a value of one character
stripQuotes(value) ==
    IF Len(value) = 1 THEN value ELSE Sub(value, 2, Len(value) - 1)

\* result[key] = value on the object literal {}: the key __proto__ names the
\* accessor of Object.prototype, whose setter ignores a value that is
\* neither an object nor null, so the assignment adds no field
assignProperty(result, key, value) ==
    IF key = <<"_","_","p","r","o","t","o","_","_">> THEN result ELSE Put(result, key, value)

\* one pass of the loop of parseEnvFile
parseEnvLine(result, line) ==
    LET trimmed == trim(line)
        eqIndex == IF \E i \in 1..Len(trimmed) : trimmed[i] = "="
                   THEN CHOOSE i \in 1..Len(trimmed) :
                            trimmed[i] = "=" /\ \A j \in 1..(i - 1) : trimmed[j] # "="
                   ELSE 0
        key == trim(Sub(trimmed, 1, eqIndex - 1))
        value == trim(Sub(trimmed, eqIndex + 1, Len(trimmed)))
        quoted == \/ startsWith(value, <<"\"">>) /\ endsWith(value, <<"\"">>)
                  \/ startsWith(value, <<"'">>) /\ endsWith(value, <<"'">>)
    IN  IF trimmed = <<>> \/ startsWith(trimmed, <<"#">>) THEN result
        ELSE IF eqIndex = 0 THEN result
        ELSE assignProperty(result, key, IF quoted THEN stripQuotes(value) ELSE value)

RECURSIVE parseEnvLines(_, _)
parseEnvLines(result, lines) ==
    IF lines = <<>> THEN result
    ELSE parseEnvLines(parseEnvLine(result, Head(lines)), Tail(lines))

parseEnvFile(content) == parseEnvLines(<<>>, split(content, "\n"))

\* A file of the model: [exists, readable, content]. fs.readFileSync throws
\* for a file that exists and cannot be read.
File(exists, readable, content) ==
    [exists |-> exists, readable |-> readable, content |-> content]

\* parser(content): the built-in parser, or a custom envFileParser that throws
runParser(parser, content) ==
    IF parser = "builtin"
    THEN [ok |-> TRUE, map |-> parseEnvFile(content)]
    ELSE [ok |-> FALSE, map |-> <<>>]

Loaded(merged, warnings) == [merged |-> merged, warnings |-> warnings]

\* one pass of the loop of loadSources with a catch block that does not
\* warn: a file that cannot be read or parsed is passed over in silence
loadSourceSilent(acc, source, processEnv, fileSystem, parser) ==
    IF source = "env"
    THEN [acc EXCEPT !.merged = AssignEnv(@, processEnv)]
    ELSE LET file == fileSystem[source]
             parsed == runParser(parser, file.content)
         IN  IF ~file.exists
             THEN [acc EXCEPT !.warnings =
                       Append(@, [source |-> source, what |-> "not found"])]
             ELSE IF ~file.readable \/ ~parsed.ok
             THEN acc
             ELSE [acc EXCEPT !.merged = AssignEnv(@, parsed.map)]

\* one pass of the loop of loadSources that merges pair by pair while it
\* parses: the pairs of a file whose parser throws are in the accumulator
\* when the catch block is entered
loadSourcePartial(acc, source, processEnv, fileSystem, parser) ==
    IF source = "env"
    THEN [acc EXCEPT !.merged = AssignEnv(@, processEnv)]
    ELSE LET file == fileSystem[source]
             parsed == runParser(parser, file.content)
         IN  IF ~file.exists
             THEN [acc EXCEPT !.warnings =
                       Append(@, [source |-> source, what |-> "not found"])]
             ELSE IF ~file.readable \/ ~parsed.ok
             THEN [acc EXCEPT !.merged = AssignEnv(@, parseEnvFile(file.content)),
                              !.warnings =
                       Append(@, [source |-> source, what |-> "failed to load"])]
             ELSE [acc EXCEPT !.merged = AssignEnv(@, parsed.map)]

\* one pass of the loop of loadSources
loadSource(acc, source, processEnv, fileSystem, parser) ==
    IF source = "env"
    THEN [acc EXCEPT !.merged = AssignEnv(@, processEnv)]
    ELSE LET file == fileSystem[source]
             parsed == runParser(parser, file.content)
         IN  IF ~file.exists
             THEN [acc EXCEPT !.warnings =
                       Append(@, [source |-> source, what |-> "not found"])]
             ELSE IF ~file.readable \/ ~parsed.ok
             THEN [acc EXCEPT !.warnings =
                       Append(@, [source |-> source, what |-> "failed to load"])]
             ELSE [acc EXCEPT !.merged = AssignEnv(@, parsed.map)]

\* the loop of loadSources from sources[i] down to sources[1]
RECURSIVE loadSourcesFrom(_, _, _, _, _, _)
loadSourcesFrom(acc, sources, i, processEnv, fileSystem, parser) ==
    IF i < 1 THEN acc
    ELSE loadSourcesFrom(loadSource(acc, sources[i], processEnv, fileSystem, parser),
                         sources, i - 1, processEnv, fileSystem, parser)

\* loadSources with the loop running from the first source to the last, so
\* that the last source is merged last
loadSourcesForward(sources, processEnv, fileSystem, parser) ==
    loadSourcesFrom(Loaded(<<>>, <<>>),
                    [i \in 1..Len(sources) |-> sources[Len(sources) + 1 - i]],
                    Len(sources), processEnv, fileSystem, parser)

loadSources(sources, processEnv, fileSystem, parser) ==
    loadSourcesFrom(Loaded(<<>>, <<>>), sources, Len(sources),
                    processEnv, fileSystem, parser)

(***************************************************************************)
(* AutoEnvParse.parse                                                      *)
(***************************************************************************)
\* The second argument of a call of parse: an options object, or the prefix
\* string of the call parse(target, prefix, overrides) of version 2.
Options(prefix, overrides, sourcesGiven, sources, parser) ==
    [kind |-> "object", prefix |-> prefix, overrides |-> overrides,
     sourcesGiven |-> sourcesGiven, sources |-> sources, parser |-> parser]

PrefixString(prefix) ==
    [kind |-> "string", prefix |-> prefix, overrides |-> <<>>,
     sourcesGiven |-> FALSE, sources |-> <<>>, parser |-> "builtin"]

\* what a call of parse leaves behind: what loadSources gave and what the
\* walk of the instance gave
Outcome(loaded, walked) == [loaded |-> loaded, walked |-> walked]

\* parse as version 2 had it: a string as second argument is the prefix, and
\* the third argument the overrides
parseWithLegacyForm(instance, options, rest, processEnv, fileSystem) ==
    LET opts == IF options.kind = "string"
                THEN Options(options.prefix, rest[1], FALSE, <<>>, "builtin")
                ELSE options
        sources == IF opts.sourcesGiven THEN opts.sources ELSE <<"env", ".env">>
        loaded == loadSources(sources, processEnv, fileSystem, opts.parser)
        walked == parseObject(instance, opts.prefix, opts.overrides,
                              loaded.merged, processEnv)
    IN  Outcome(loaded, walked)

\* parse(targetOrClass, options, ...rest) on the object `instance`: the
\* target itself, or the instance new targetOrClass() would build. parse
\* declares two parameters, so the arguments in rest are not read. A string
\* that is not empty passes `options || {}`; the assignment opts.sources =
\* [...] then throws a TypeError in strict code and does nothing in sloppy
\* code, where loadSources(undefined) throws a TypeError at sources.length.
\* Either way the call throws before a source is loaded and before the
\* instance is built.
parse(instance, options, rest, processEnv, fileSystem) ==
    LET opts == IF options.kind = "string" /\ options.prefix = <<>>
                THEN Options(<<>>, <<>>, FALSE, <<>>, "builtin")
                ELSE options
        sources == IF opts.sourcesGiven THEN opts.sources ELSE <<"env", ".env">>
        loaded == loadSources(sources, processEnv, fileSystem, opts.parser)
    IN  IF opts.kind = "string"
        THEN Outcome(Loaded(<<>>, <<>>), Walk(instance, <<>>, Err("TypeError", <<>>)))
        ELSE LET walked == parseObject(instance, opts.prefix, opts.overrides,
                                       loaded.merged, processEnv)
             IN  Outcome(loaded, walked)

(***************************************************************************)
(* The inputs the model draws from: field names, templates, prefixes and    *)
(* the entries a flat map may hold                                         *)
(***************************************************************************)
n_host == <<"h","o","s","t">>

n_port == <<"p","o","r","t">>

n_ssl == <<"s","s","l">>

n_apiKey == <<"a","p","i","K","e","y">>

n_opt == <<"o","p","t">>

n_db == <<"d","b">>

n_name == <<"n","a","m","e">>

n_size == <<"s","i","z","e">>

n_on == <<"o","n">>

n_nil == <<"n","i","l">>

n_deep == <<"d","e","e","p">>

n_lvl == <<"l","v","l">>

n_tags == <<"t","a","g","s">>

n_items == <<"i","t","e","m","s">>

n_id == <<"i","d">>

n_meta == <<"m","e","t","a">>

n_w == <<"w">>

n_nums == <<"n","u","m","s">>

n_pats == <<"p","a","t","s">>

n_none == <<"n","o","n","e">>

n_svc == <<"s","v","c">>

n_url == <<"u","r","l">>

n_retries == <<"r","e","t","r","i","e","s">>

n_inner == <<"i","n","n","e","r">>

n_x == <<"x">>

n_list == <<"l","i","s","t">>

TplPrimitives ==
    Obj("Object", << Fld(n_host, Str(<<"l","o","c","a","l">>)), Fld(n_port, Num(5)),
                     Fld(n_ssl, Bool(FALSE)), Fld(n_apiKey, Null), Fld(n_opt, Undef) >>)

\* entries for TplPrimitives, keys given without the prefix
\*   HOST = prod
\*   HOST = 
\*   PORT = 8
\*   PORT = abc
\*   PORT = 
\*   SSL =  YES
\*   SSL = 
\*   API_KEY = k1
\*   OPT = on
\*   HOST (lower case) = low
\*   APIKEY = no
\*   API_KEY = 
\*   OPT = 
CandPrimitives ==
    << [s |-> <<"H","O","S","T">>, v |-> <<"p","r","o","d">>, low |-> FALSE],
       [s |-> <<"H","O","S","T">>, v |-> <<>>, low |-> FALSE],
       [s |-> <<"P","O","R","T">>, v |-> <<"8">>, low |-> FALSE],
       [s |-> <<"P","O","R","T">>, v |-> <<"a","b","c">>, low |-> FALSE],
       [s |-> <<"P","O","R","T">>, v |-> <<>>, low |-> FALSE],
       [s |-> <<"S","S","L">>, v |-> <<" ","Y","E","S">>, low |-> FALSE],
       [s |-> <<"S","S","L">>, v |-> <<>>, low |-> FALSE],
       [s |-> <<"A","P","I","_","K","E","Y">>, v |-> <<"k","1">>, low |-> FALSE],
       [s |-> <<"O","P","T">>, v |-> <<"o","n">>, low |-> FALSE],
       [s |-> <<"H","O","S","T">>, v |-> <<"l","o","w">>, low |-> TRUE],
       [s |-> <<"A","P","I","K","E","Y">>, v |-> <<"n","o">>, low |-> FALSE],
       [s |-> <<"A","P","I","_","K","E","Y">>, v |-> <<>>, low |-> FALSE],
       [s |-> <<"O","P","T">>, v |-> <<>>, low |-> FALSE] >>

TplNested ==
    Obj("Object", << Fld(n_db, Obj("Object",
        << Fld(n_name, Str(<<"d">>)), Fld(n_size, Num(1)), Fld(n_on, Bool(FALSE)),
           Fld(n_nil, Null), Fld(n_opt, Undef),
           Fld(n_deep, Obj("Object", << Fld(n_lvl, Num(1)) >>)),
           Fld(n_tags, Arr(<< Str(<<"a">>) >>)) >>)) >>)

\* entries for TplNested
\*   DB = {"name":"j","size":"big"}
\*   DB = {"on":true,"deep":5}
\*   DB = {bad
\*   DB = {"name":{"a":1}}
\*   DB = [7]
\*   DB = 5
\*   DB = 
\*   DB_NAME = dot
\*   DB_NAME = 
\*   DB_SIZE = 9
\*   DB_ON = true
\*   DB_NIL = z
\*   DB_DEEP = {"lvl":9}
\*   DB_DEEP_LVL = 3
\*   DB_TAGS = ["x"]
CandNested ==
    << [s |-> <<"D","B">>, v |-> <<"{","\"","n","a","m","e","\"",":","\"","j","\"",",","\"","s","i","z","e","\"",":","\"","b","i","g","\"","}">>, low |-> FALSE],
       [s |-> <<"D","B">>, v |-> <<"{","\"","o","n","\"",":","t","r","u","e",",","\"","d","e","e","p","\"",":","5","}">>, low |-> FALSE],
       [s |-> <<"D","B">>, v |-> <<"{","b","a","d">>, low |-> FALSE],
       [s |-> <<"D","B">>, v |-> <<"{","\"","n","a","m","e","\"",":","{","\"","a","\"",":","1","}","}">>, low |-> FALSE],
       [s |-> <<"D","B">>, v |-> <<"[","7","]">>, low |-> FALSE],
       [s |-> <<"D","B">>, v |-> <<"5">>, low |-> FALSE],
       [s |-> <<"D","B">>, v |-> <<>>, low |-> FALSE],
       [s |-> <<"D","B","_","N","A","M","E">>, v |-> <<"d","o","t">>, low |-> FALSE],
       [s |-> <<"D","B","_","N","A","M","E">>, v |-> <<>>, low |-> FALSE],
       [s |-> <<"D","B","_","S","I","Z","E">>, v |-> <<"9">>, low |-> FALSE],
       [s |-> <<"D","B","_","O","N">>, v |-> <<"t","r","u","e">>, low |-> FALSE],
       [s |-> <<"D","B","_","N","I","L">>, v |-> <<"z">>, low |-> FALSE],
       [s |-> <<"D","B","_","D","E","E","P">>, v |-> <<"{","\"","l","v","l","\"",":","9","}">>, low |-> FALSE],
       [s |-> <<"D","B","_","D","E","E","P","_","L","V","L">>, v |-> <<"3">>, low |-> FALSE],
       [s |-> <<"D","B","_","T","A","G","S">>, v |-> <<"[","\"","x","\"","]">>, low |-> FALSE] >>

TplItems ==
    Obj("Object", << Fld(n_items, Arr(
        << Obj("Object", << Fld(n_id, Num(0)), Fld(n_name, Str(<<>>)),
                            Fld(n_meta, Obj("Object", << Fld(n_w, Num(1)) >>)),
                            Fld(n_tags, Arr(<< Str(<<"a">>) >>)) >>),
           Obj("Object", << Fld(n_id, Num(1)), Fld(n_name, Str(<<"b">>)) >>) >>)) >>)

\* entries for TplItems, in an order that is not the order of the indices
\*   ITEMS_2_ID = 20
\*   ITEMS_2_NAME = two
\*   ITEMS_0_ID = 10
\*   ITEMS_0_ID = abc
\*   ITEMS_10_NAME = ten
\*   ITEMS_5_ID = 
\*   ITEMS_0_META_W = 4
\*   ITEMS_2_TAGS = t
\*   ITEMS_05_ID = 50
\*   ITEMS_7_ID (lower case) = 70
\*   ITEMS_X_ID = 1
\*   ITEMS_3 = 30
\*   ITEMS = [{"id":7}]
\*   ITEMS = bad
CandItems ==
    << [s |-> <<"I","T","E","M","S","_","2","_","I","D">>, v |-> <<"2","0">>, low |-> FALSE],
       [s |-> <<"I","T","E","M","S","_","2","_","N","A","M","E">>, v |-> <<"t","w","o">>, low |-> FALSE],
       [s |-> <<"I","T","E","M","S","_","0","_","I","D">>, v |-> <<"1","0">>, low |-> FALSE],
       [s |-> <<"I","T","E","M","S","_","0","_","I","D">>, v |-> <<"a","b","c">>, low |-> FALSE],
       [s |-> <<"I","T","E","M","S","_","1","0","_","N","A","M","E">>, v |-> <<"t","e","n">>, low |-> FALSE],
       [s |-> <<"I","T","E","M","S","_","5","_","I","D">>, v |-> <<>>, low |-> FALSE],
       [s |-> <<"I","T","E","M","S","_","0","_","M","E","T","A","_","W">>, v |-> <<"4">>, low |-> FALSE],
       [s |-> <<"I","T","E","M","S","_","2","_","T","A","G","S">>, v |-> <<"t">>, low |-> FALSE],
       [s |-> <<"I","T","E","M","S","_","0","5","_","I","D">>, v |-> <<"5","0">>, low |-> FALSE],
       [s |-> <<"I","T","E","M","S","_","7","_","I","D">>, v |-> <<"7","0">>, low |-> TRUE],
       [s |-> <<"I","T","E","M","S","_","X","_","I","D">>, v |-> <<"1">>, low |-> FALSE],
       [s |-> <<"I","T","E","M","S","_","3">>, v |-> <<"3","0">>, low |-> FALSE],
       [s |-> <<"I","T","E","M","S">>, v |-> <<"[","{","\"","i","d","\"",":","7","}","]">>, low |-> FALSE],
       [s |-> <<"I","T","E","M","S">>, v |-> <<"b","a","d">>, low |-> FALSE] >>

TplArrays ==
    Obj("Object", << Fld(n_nums, Arr(<< Num(0), Num(1) >>)),
                     Fld(n_pats, Arr(<< RegExpOf(<<"t">>) >>)),
                     Fld(n_none, Arr(<<>>)) >>)

\* entries for TplArrays
\*   NUMS_1_VALUE = 20
\*   NUMS_0_VALUE = 10
\*   NUMS = [7,8,9]
\*   NUMS = {"a":1}
\*   PATS = ["^a","b$"]
\*   PATS = ["["]
\*   PATS = [7]
\*   PATS_0_SOURCE = x
\*   NONE = [1]
\*   NONE_0_ID = 1
\*   NONE = bad
\*   PATS = bad
\*   NUMS = [7,
\*   NUMS_01_VALUE = 5
CandArrays ==
    << [s |-> <<"N","U","M","S","_","1","_","V","A","L","U","E">>, v |-> <<"2","0">>, low |-> FALSE],
       [s |-> <<"N","U","M","S","_","0","_","V","A","L","U","E">>, v |-> <<"1","0">>, low |-> FALSE],
       [s |-> <<"N","U","M","S">>, v |-> <<"[","7",",","8",",","9","]">>, low |-> FALSE],
       [s |-> <<"N","U","M","S">>, v |-> <<"{","\"","a","\"",":","1","}">>, low |-> FALSE],
       [s |-> <<"P","A","T","S">>, v |-> <<"[","\"","^","a","\"",",","\"","b","$","\"","]">>, low |-> FALSE],
       [s |-> <<"P","A","T","S">>, v |-> <<"[","\"","[","\"","]">>, low |-> FALSE],
       [s |-> <<"P","A","T","S">>, v |-> <<"[","7","]">>, low |-> FALSE],
       [s |-> <<"P","A","T","S","_","0","_","S","O","U","R","C","E">>, v |-> <<"x">>, low |-> FALSE],
       [s |-> <<"N","O","N","E">>, v |-> <<"[","1","]">>, low |-> FALSE],
       [s |-> <<"N","O","N","E","_","0","_","I","D">>, v |-> <<"1">>, low |-> FALSE],
       [s |-> <<"N","O","N","E">>, v |-> <<"b","a","d">>, low |-> FALSE],
       [s |-> <<"P","A","T","S">>, v |-> <<"b","a","d">>, low |-> FALSE],
       [s |-> <<"N","U","M","S">>, v |-> <<"[","7",",">>, low |-> FALSE],
       [s |-> <<"N","U","M","S","_","0","1","_","V","A","L","U","E">>, v |-> <<"5">>, low |-> FALSE] >>

TplComposite ==
    Obj("Object", << Fld(n_svc, Obj("Svc",
        << Fld(n_url, Str(<<"u">>)), Fld(n_retries, Num(1)),
           Fld(n_inner, Obj("Object", << Fld(n_x, Num(1)) >>)),
           Fld(n_list, Arr(<< Str(<<"a">>) >>)) >>)) >>)

\* entries for TplComposite
\*   SVC = {"url":"j","retries":"n"}
\*   SVC = {"inner":5}
\*   SVC = {bad
\*   SVC_URL = dot
\*   SVC_URL = 
\*   SVC_RETRIES = 3
\*   SVC_INNER = {"x":5}
\*   SVC_INNER_X = 2
\*   SVC_LIST = str
CandComposite ==
    << [s |-> <<"S","V","C">>, v |-> <<"{","\"","u","r","l","\"",":","\"","j","\"",",","\"","r","e","t","r","i","e","s","\"",":","\"","n","\"","}">>, low |-> FALSE],
       [s |-> <<"S","V","C">>, v |-> <<"{","\"","i","n","n","e","r","\"",":","5","}">>, low |-> FALSE],
       [s |-> <<"S","V","C">>, v |-> <<"{","b","a","d">>, low |-> FALSE],
       [s |-> <<"S","V","C","_","U","R","L">>, v |-> <<"d","o","t">>, low |-> FALSE],
       [s |-> <<"S","V","C","_","U","R","L">>, v |-> <<>>, low |-> FALSE],
       [s |-> <<"S","V","C","_","R","E","T","R","I","E","S">>, v |-> <<"3">>, low |-> FALSE],
       [s |-> <<"S","V","C","_","I","N","N","E","R">>, v |-> <<"{","\"","x","\"",":","5","}">>, low |-> FALSE],
       [s |-> <<"S","V","C","_","I","N","N","E","R","_","X">>, v |-> <<"2">>, low |-> FALSE],
       [s |-> <<"S","V","C","_","L","I","S","T">>, v |-> <<"s","t","r">>, low |-> FALSE] >>

n_mode == <<"m","o","d","e">>

n_level == <<"l","e","v","e","l">>

n_timeout == <<"t","i","m","e","o","u","t">>

n_after == <<"a","f","t","e","r">>

TplHelpers ==
    Obj("Object", << Fld(n_mode, Str(<<"d","e","v">>)), Fld(n_level, Str(<<"I","N","F","O">>)),
                     Fld(n_timeout, Num(5)), Fld(n_after, Str(<<"x">>)) >>)

\* entries for TplHelpers
\*   MODE = prod
\*   MODE = Prod
\*   MODE = 
\*   LEVEL = info
\*   LEVEL = debug
\*   LEVEL = x
\*   TIMEOUT = 9
\*   TIMEOUT = abc
\*   TIMEOUT = 
\*   AFTER = y
CandHelpers ==
    << [s |-> <<"M","O","D","E">>, v |-> <<"p","r","o","d">>, low |-> FALSE],
       [s |-> <<"M","O","D","E">>, v |-> <<"P","r","o","d">>, low |-> FALSE],
       [s |-> <<"M","O","D","E">>, v |-> <<>>, low |-> FALSE],
       [s |-> <<"L","E","V","E","L">>, v |-> <<"i","n","f","o">>, low |-> FALSE],
       [s |-> <<"L","E","V","E","L">>, v |-> <<"d","e","b","u","g">>, low |-> FALSE],
       [s |-> <<"L","E","V","E","L">>, v |-> <<"x">>, low |-> FALSE],
       [s |-> <<"T","I","M","E","O","U","T">>, v |-> <<"9">>, low |-> FALSE],
       [s |-> <<"T","I","M","E","O","U","T">>, v |-> <<"a","b","c">>, low |-> FALSE],
       [s |-> <<"T","I","M","E","O","U","T">>, v |-> <<>>, low |-> FALSE],
       [s |-> <<"A","F","T","E","R">>, v |-> <<"y">>, low |-> FALSE] >>

\* the override helpers of the model: mode is one of dev and prod, spelled so;
\* level is one of DEBUG, Info and INFO in either case; timeout is digits only
Helpers ==
    (n_mode :> enumValidator(n_mode, << <<"d","e","v">>, <<"p","r","o","d">> >>, TRUE))
        @@ (n_level :> enumValidator(n_level, << <<"D","E","B","U","G">>, <<"I","n","f","o">>, <<"I","N","F","O">> >>, FALSE))
        @@ (n_timeout :> transform(n_timeout, "strictInt"))

\* the override helpers of the loader scenarios: host is one of env, file and q
LoaderHelpers ==
    (n_host :> enumValidator(n_host, << <<"e","n","v">>, <<"f","i","l","e">>, <<"q">> >>, TRUE))
        @@ (n_port :> transform(n_port, "strictInt"))

n_poolCfg == <<"p","o","o","l","C","f","g">>

n_maxSize == <<"m","a","x","S","i","z","e">>

n_subCfg == <<"s","u","b","C","f","g">>

n_minVal == <<"m","i","n","V","a","l">>

n_apiSvc == <<"a","p","i","S","v","c">>

n_baseUrl == <<"b","a","s","e","U","r","l">>

n_jobList == <<"j","o","b","L","i","s","t">>

n_jobId == <<"j","o","b","I","d">>

\* a template whose fields have names of two words at every depth: a plain
\* record, a composite and an array of records, each holding a leaf and a
\* record with a leaf
TplPaths ==
    Obj("Object",
        << Fld(n_poolCfg, Obj("Object",
               << Fld(n_maxSize, Num(1)),
                  Fld(n_subCfg, Obj("Object", << Fld(n_minVal, Num(1)) >>)) >>)),
           Fld(n_apiSvc, Obj("Svc",
               << Fld(n_baseUrl, Str(<<"u">>)),
                  Fld(n_subCfg, Obj("Object", << Fld(n_minVal, Num(1)) >>)) >>)),
           Fld(n_jobList, Arr(
               << Obj("Object",
                      << Fld(n_jobId, Num(0)),
                         Fld(n_subCfg, Obj("Object", << Fld(n_minVal, Num(1)) >>)) >>) >>)) >>)

\* entries for TplPaths
\*   POOL_CFG_MAX_SIZE = 9
\*   POOL_CFG_SUB_CFG_MIN_VAL = 8
\*   API_SVC_BASE_URL = v
\*   API_SVC_SUB_CFG_MIN_VAL = 7
\*   JOB_LIST_3_JOB_ID = 6
\*   JOB_LIST_3_SUB_CFG_MIN_VAL = 5
\*   POOLCFG_MAXSIZE = 4
\*   JOBLIST_3_JOBID = 3
\*   POOL_CFG_MAXSIZE = 2
CandPaths ==
    << [s |-> <<"P","O","O","L","_","C","F","G","_","M","A","X","_","S","I","Z","E">>, v |-> <<"9">>, low |-> FALSE],
       [s |-> <<"P","O","O","L","_","C","F","G","_","S","U","B","_","C","F","G","_","M","I","N","_","V","A","L">>, v |-> <<"8">>, low |-> FALSE],
       [s |-> <<"A","P","I","_","S","V","C","_","B","A","S","E","_","U","R","L">>, v |-> <<"v">>, low |-> FALSE],
       [s |-> <<"A","P","I","_","S","V","C","_","S","U","B","_","C","F","G","_","M","I","N","_","V","A","L">>, v |-> <<"7">>, low |-> FALSE],
       [s |-> <<"J","O","B","_","L","I","S","T","_","3","_","J","O","B","_","I","D">>, v |-> <<"6">>, low |-> FALSE],
       [s |-> <<"J","O","B","_","L","I","S","T","_","3","_","S","U","B","_","C","F","G","_","M","I","N","_","V","A","L">>, v |-> <<"5">>, low |-> FALSE],
       [s |-> <<"P","O","O","L","C","F","G","_","M","A","X","S","I","Z","E">>, v |-> <<"4">>, low |-> FALSE],
       [s |-> <<"J","O","B","L","I","S","T","_","3","_","J","O","B","I","D">>, v |-> <<"3">>, low |-> FALSE],
       [s |-> <<"P","O","O","L","_","C","F","G","_","M","A","X","S","I","Z","E">>, v |-> <<"2">>, low |-> FALSE] >>

\* a template that holds a primitive at the top level, in a plain record, in
\* a composite and in an array element
TplMixed ==
    Obj("Object",
        << Fld(n_port, Num(5)),
           Fld(n_db, Obj("Object", << Fld(n_size, Num(1)) >>)),
           Fld(n_svc, Obj("Svc", << Fld(n_retries, Num(1)) >>)),
           Fld(n_items, Arr(<< Obj("Object", << Fld(n_id, Num(0)) >>) >>)) >>)

\* entries for TplMixed
\*   PORT = 
\*   DB_SIZE = 
\*   SVC_RETRIES = 
\*   ITEMS_0_ID = 
\*   ITEMS_1_ID = 4
\*   DB_SIZE = 2
CandMixed ==
    << [s |-> <<"P","O","R","T">>, v |-> <<>>, low |-> FALSE],
       [s |-> <<"D","B","_","S","I","Z","E">>, v |-> <<>>, low |-> FALSE],
       [s |-> <<"S","V","C","_","R","E","T","R","I","E","S">>, v |-> <<>>, low |-> FALSE],
       [s |-> <<"I","T","E","M","S","_","0","_","I","D">>, v |-> <<>>, low |-> FALSE],
       [s |-> <<"I","T","E","M","S","_","1","_","I","D">>, v |-> <<"4">>, low |-> FALSE],
       [s |-> <<"D","B","_","S","I","Z","E">>, v |-> <<"2">>, low |-> FALSE] >>

n_own == <<"o","w","n">>

n_inherited == <<"i","n","h","e","r","i","t","e","d">>

n_complex == <<"c","o","m","p","l","e","x">>

n_base == <<"b","a","s","e">>

\* a target built by Object.create({inherited: 'base'}) that holds a field of
\* its own, an instance of a class whose prototype holds base, and an array
\* of such instances
TplInherited ==
    ObjWithProto("Config",
        << Fld(n_own, Str(<<"c","h","i","l","d">>)),
           Fld(n_complex, ObjWithProto("Base", << Fld(n_own, Str(<<"o","w","n","-","v","a","l","u","e">>)) >>,
                                       << Fld(n_base, Str(<<"p","r","o","t","o","-","v","a","l","u","e">>)) >>)),
           Fld(n_items, Arr(<< ObjWithProto("Base", << Fld(n_id, Num(0)) >>,
                                            << Fld(n_base, Str(<<"p">>)) >>) >>)) >>,
        << Fld(n_inherited, Str(<<"b","a","s","e">>)) >>)

\* entries for TplInherited
\*   OWN = updated
\*   INHERITED = no
\*   COMPLEX_OWN = o
\*   COMPLEX_BASE = b
\*   COMPLEX = {"base":"j"}
\*   ITEMS_0_BASE = lb
\*   ITEMS_0_ID = 3
CandInherited ==
    << [s |-> <<"O","W","N">>, v |-> <<"u","p","d","a","t","e","d">>, low |-> FALSE],
       [s |-> <<"I","N","H","E","R","I","T","E","D">>, v |-> <<"n","o">>, low |-> FALSE],
       [s |-> <<"C","O","M","P","L","E","X","_","O","W","N">>, v |-> <<"o">>, low |-> FALSE],
       [s |-> <<"C","O","M","P","L","E","X","_","B","A","S","E">>, v |-> <<"b">>, low |-> FALSE],
       [s |-> <<"C","O","M","P","L","E","X">>, v |-> <<"{","\"","b","a","s","e","\"",":","\"","j","\"","}">>, low |-> FALSE],
       [s |-> <<"I","T","E","M","S","_","0","_","B","A","S","E">>, v |-> <<"l","b">>, low |-> FALSE],
       [s |-> <<"I","T","E","M","S","_","0","_","I","D">>, v |-> <<"3">>, low |-> FALSE] >>

\* the prefixes: none, two that match /^[A-Z0-9]+$/ and three that do not
NoPrefix == <<>>

PrefixX == <<"X">>

PrefixA1 == <<"A","1">>

PrefixDash == <<"d","b","-","1">>

PrefixLower == <<"x">>

PrefixUnderscore == <<"X","_","Y">>

NoOverrides == <<>>

Spies(fieldNames) == [n \in fieldNames |-> Spy]

\* a template, the entries its flat maps are drawn from, the prefixes and
\* override maps it is parsed with, the forms of call (with an options
\* object, or in the positional form of version 2) and whether the caller
\* passes the object or a class that builds it
Scenarios ==
    << [tmpl |-> TplPrimitives, cands |-> CandPrimitives,
        prefixes |-> <<NoPrefix, PrefixX, PrefixDash>>,
        overrides |-> <<NoOverrides, Spies({n_port}), Spies({n_opt, n_host, n_name})>>,
        forms |-> {"options", "legacy"}, classes |-> BOOLEAN],
       [tmpl |-> TplNested, cands |-> CandNested,
        prefixes |-> <<NoPrefix, PrefixX, PrefixLower>>,
        overrides |-> <<NoOverrides, Spies({n_name, n_lvl})>>,
        forms |-> {"options"}, classes |-> {FALSE}],
       [tmpl |-> TplItems, cands |-> CandItems,
        prefixes |-> <<PrefixX, PrefixA1>>,
        overrides |-> <<NoOverrides, Spies({n_id})>>,
        forms |-> {"options"}, classes |-> {FALSE}],
       [tmpl |-> TplArrays, cands |-> CandArrays,
        prefixes |-> <<PrefixX, PrefixUnderscore>>,
        overrides |-> <<NoOverrides>>,
        forms |-> {"options"}, classes |-> {FALSE}],
       [tmpl |-> TplComposite, cands |-> CandComposite,
        prefixes |-> <<PrefixX>>,
        overrides |-> <<NoOverrides, Spies({n_svc}), Spies({n_url})>>,
        forms |-> {"options"}, classes |-> {FALSE}],
       [tmpl |-> TplHelpers, cands |-> CandHelpers,
        prefixes |-> <<NoPrefix, PrefixX>>,
        overrides |-> <<Helpers>>,
        forms |-> {"options"}, classes |-> {FALSE}],
       [tmpl |-> TplPaths, cands |-> CandPaths,
        prefixes |-> <<NoPrefix, PrefixX>>,
        overrides |-> <<NoOverrides>>,
        forms |-> {"options"}, classes |-> {FALSE}],
       [tmpl |-> TplMixed, cands |-> CandMixed,
        prefixes |-> <<NoPrefix, PrefixX>>,
        overrides |-> <<NoOverrides>>,
        forms |-> {"options"}, classes |-> {FALSE}],
       [tmpl |-> TplInherited, cands |-> CandInherited,
        prefixes |-> <<NoPrefix, PrefixX>>,
        overrides |-> <<NoOverrides, Spies({n_inherited})>>,
        forms |-> {"options"}, classes |-> {FALSE}] >>

\* the most entries a flat map of a walker scenario holds
MaxEntries == 2

\* the most sources a sources list of a loader scenario names
MaxSources == 2

\* the most calls of parse in a behaviour
MaxCalls == 2

\* the key of a candidate entry under a prefix
EnvKey(p, c) ==
    LET key == IF p = <<>> THEN c.s ELSE p \o <<"_">> \o c.s
    IN  IF c.low THEN toLowerCase(key) ELSE key

\* the sets of candidates that make a flat map: at most MaxEntries, no key twice
Picks(cands) ==
    { S \in SUBSET (1..Len(cands)) :
        /\ Cardinality(S) <= MaxEntries
        /\ \A i, j \in S : i # j => EnvKey(<<>>, cands[i]) # EnvKey(<<>>, cands[j]) }

\* the flat map of the candidates picked, in the order of the candidates
RECURSIVE EntriesOf(_, _, _, _)
EntriesOf(p, cands, S, i) ==
    IF i > Len(cands) THEN <<>>
    ELSE (IF i \in S THEN <<Entry(EnvKey(p, cands[i]), cands[i].v)>> ELSE <<>>)
             \o EntriesOf(p, cands, S, i + 1)

\* the loader scenarios: a template of two fields, the live environment, two
\* files that exist and one that does not
TplLoader ==
    Obj("Object", << Fld(n_host, Str(<<"l","o","c","a","l">>)), Fld(n_port, Num(5)) >>)

SourceNames == {"env", ".env", "a.env", "gone.env"}

RECURSIVE SeqsUpTo(_, _)
SeqsUpTo(S, n) ==
    IF n = 0 THEN { <<>> }
    ELSE SeqsUpTo(S, n - 1)
             \cup { Append(q, x) : q \in { r \in SeqsUpTo(S, n - 1) : Len(r) = n - 1 }, x \in S }

\* HOST=env, PORT=9 and SSL=on in the live environment
ProcessEnvs ==
    << <<>>,
       << Entry(<<"H","O","S","T">>, <<"e","n","v">>) >>,
       << Entry(<<"P","O","R","T">>, <<"9">>),
          Entry(<<"S","S","L">>, <<"o","n">>) >> >>

\* the file .env: unreadable, or one of
\*   HOST=file
\*   PORT=7
\* and
\*   # c
\*    HOST = "q"
\*
\*   BAD
\*   PORT='1
\*   PORT=2=3
DotEnvFiles ==
    << File(TRUE, FALSE, <<>>),
       File(TRUE, TRUE, <<"H","O","S","T","=","f","i","l","e","\n",
                          "P","O","R","T","=","7">>),
       File(TRUE, TRUE, <<"#"," ","c","\n",
                          " ","H","O","S","T"," ","="," ","\"","q","\"","\n",
                          "\n",
                          "B","A","D","\n",
                          "P","O","R","T","=","'","1","\n",
                          "P","O","R","T","=","2","=","3">>) >>

\* the file a.env: absent, or HOST=a
AEnvFiles ==
    << File(FALSE, FALSE, <<>>),
       File(TRUE, TRUE, <<"H","O","S","T","=","a">>) >>

FileSystem(dotEnv, aEnv) ==
    [f \in {".env", "a.env", "gone.env"} |->
        CASE f = ".env" -> dotEnv
          [] f = "a.env" -> aEnv
          [] OTHER -> File(FALSE, FALSE, <<>>)]

(***************************************************************************)
(* The state machine: a caller that owns a target and calls parse on it    *)
(***************************************************************************)
VARIABLES
    target,         \* the object parse populates
    tmpl,           \* the target as the caller built it
    form,           \* how the caller calls parse: "options" or "legacy"
    isClass,        \* whether the caller passes a class that builds tmpl
    prefix,         \* options.prefix
    overrides,      \* options.overrides: field name -> callback
    sourcesGiven,   \* whether options.sources is given
    sources,        \* options.sources
    parser,         \* options.envFileParser: "builtin" when none is given
    processEnv,     \* process.env
    fileSystem,     \* the files a source may name
    merged,         \* the flat map of the last call
    warnings,       \* the warnings loadSources emitted in the last call
    walkWarnings,   \* the warnings the walk of the last call emitted
    calls,          \* the calls the last call made to override callbacks
    err,            \* the error the last call threw, NoError when it returned
    prev,           \* the object the last call was given to populate
    ncalls,         \* the calls of parse made so far
    args,           \* the arguments a public helper is called with
    applied,        \* the helpers applied to args so far, "none" when none
    returned,       \* what the last helper applied returned
    phase,          \* where a call of parse followed step by step is
    frames,         \* the call stack of that call, the running call last
    visits,         \* the fields and array elements that call visited so far
    steps           \* the loop passes, calls and returns that call made so far

vars == <<target, tmpl, form, isClass, prefix, overrides, sourcesGiven, sources,
          parser, processEnv, fileSystem, merged, warnings, walkWarnings, calls,
          err, prev, ncalls, args, applied, returned, phase, frames, visits,
          steps>>

options == <<form, isClass, prefix, overrides, sourcesGiven, sources, parser>>

helpers == <<args, applied, returned>>

stepper == <<phase, frames, visits, steps>>

\* no call of parse is followed step by step
AtRest ==
    /\ phase = "idle"
    /\ frames = <<>>
    /\ visits = <<>>
    /\ steps = 0

NoArgs == [of |-> "none"]

NoHelpers ==
    /\ args = NoArgs
    /\ applied = "none"
    /\ returned = <<>>

world == <<processEnv, fileSystem>>

InitRun(t) ==
    /\ target = t
    /\ tmpl = t
    /\ merged = <<>>
    /\ warnings = <<>>
    /\ walkWarnings = <<>>
    /\ calls = <<>>
    /\ err = NoError
    /\ prev = t
    /\ ncalls = 0

\* a walker scenario: the flat map is the live environment
InitWalker ==
    \E i \in 1..Len(Scenarios) :
        \E p \in 1..Len(Scenarios[i].prefixes), o \in 1..Len(Scenarios[i].overrides),
           S \in Picks(Scenarios[i].cands) :
            /\ InitRun(Scenarios[i].tmpl)
            /\ NoHelpers
            /\ AtRest
            /\ form \in Scenarios[i].forms
            /\ isClass \in Scenarios[i].classes
            /\ prefix = Scenarios[i].prefixes[p]
            /\ overrides = Scenarios[i].overrides[o]
            /\ sourcesGiven = (form = "options")
            /\ sources = IF sourcesGiven THEN <<"env">> ELSE <<>>
            /\ parser = "builtin"
            /\ processEnv = EntriesOf(prefix, Scenarios[i].cands, S, 1)
            /\ fileSystem = FileSystem(AEnvFiles[1], AEnvFiles[1])

\* a loader scenario
InitLoader ==
    \E e \in 1..Len(ProcessEnvs), d \in 1..Len(DotEnvFiles), a \in 1..Len(AEnvFiles) :
        /\ InitRun(TplLoader)
        /\ NoHelpers
        /\ AtRest
        /\ form \in {"options", "legacy"}
        /\ isClass = FALSE
        /\ prefix = <<>>
        /\ overrides \in {NoOverrides, LoaderHelpers}
        /\ sourcesGiven \in BOOLEAN
        /\ sources \in SeqsUpTo(SourceNames, MaxSources)
        /\ sourcesGiven = FALSE => sources = <<>>
        /\ form = "legacy" => sourcesGiven = FALSE /\ parser = "builtin"
        /\ parser \in {"builtin", "throws"}
        /\ processEnv = ProcessEnvs[e]
        /\ fileSystem = FileSystem(DotEnvFiles[d], AEnvFiles[a])

Init == InitWalker \/ InitLoader

\* opts.sources, ['env', '.env'] when it is not given
effectiveSources == IF sourcesGiven THEN sources ELSE <<"env", ".env">>

\* the object a call populates: the target, or a new instance of the class
instance == IF isClass THEN tmpl ELSE target

Record(outcome) ==
    /\ target' = outcome.walked.target
    /\ merged' = outcome.loaded.merged
    /\ warnings' = outcome.loaded.warnings
    /\ walkWarnings' = outcome.walked.warnings
    /\ calls' = outcome.walked.calls
    /\ err' = outcome.walked.err
    /\ prev' = instance
    /\ ncalls' = ncalls + 1
    /\ UNCHANGED <<tmpl, options, world, helpers, stepper>>

\* AutoEnvParse.parse(target, options)
Parse ==
    /\ ncalls < MaxCalls
    /\ form = "options"
    /\ \E outcome \in { parse(instance,
                                Options(prefix, overrides, sourcesGiven, sources, parser),
                                <<>>, processEnv, fileSystem) } :
           Record(outcome)

\* AutoEnvParse.parse(target, prefix, overrides), the call of version 2
ParseLegacy ==
    /\ ncalls < MaxCalls
    /\ form = "legacy"
    /\ \E outcome \in { parse(instance, PrefixString(prefix), <<overrides>>,
                                processEnv, fileSystem) } :
           Record(outcome)

Next == Parse \/ ParseLegacy

Spec == Init /\ [][Next]_vars


(***************************************************************************)
(* The helpers called on their own: buildEnvVarName, coerceValue and       *)
(* loadNestedFromEnv are static methods a caller may apply to arguments of *)
(* its choice; parseEnvFile is applied to the text of a file.              *)
(***************************************************************************)
\* the longest field name built from NameChars
MaxNameLen == 5

\* the most characters of white space on a side of a boolean text
MaxPad == 1

\* a lower-case letter, two capitals, a digit and an underscore
NameChars == {"a", "A", "B", "1", "_"}

NamedExamples ==
    { <<"H","T","T","P","S","P","o","r","t">>,
      <<"A","P","I","K","e","y">>,
      <<"X","M","L","P","a","r","s","e","r">>,
      <<"p","o","o","l","S","i","z","e">>,
      <<"h","o","s","t">>,
      <<"m","a","x","H","T","T","P","R","e","t","r","i","e","s">>,
      <<"u","s","e","r","I","D">> }

FieldNames == SeqsUpTo(NameChars, MaxNameLen) \cup NamedExamples

BooleanWords ==
    { <<"t","r","u","e">>,
      <<"1">>,
      <<"y","e","s">>,
      <<"o","n">>,
      <<"f","a","l","s","e">>,
      <<"0">>,
      <<"n","o">>,
      <<"o","f","f">>,
      <<>>,
      <<"m","a","y","b","e">>,
      <<"2">>,
      <<"t","r","u">>,
      <<"y","e","s","s">>,
      <<"o"," ","n">>,
      <<"y">>,
      <<"t">>,
      <<"1","0">>,
      <<"o","n","n">> }

\* a word as it is, in capitals, and with a capital first letter
Spellings(w) ==
    { w, toUpperCase(w),
      [i \in 1..Len(w) |-> IF i = 1 THEN ToUpperChar(w[i]) ELSE w[i]] }

Pads == SeqsUpTo({" ", "\t", "\n"}, MaxPad)

BooleanTexts ==
    { left \o spelt \o right :
        left \in Pads, right \in Pads,
        spelt \in UNION { Spellings(w) : w \in BooleanWords } }

\* the records loadNestedFromEnv is given: the record of TplNested and the
\* record inside it
DefaultRecords == { Get(TplNested, n_db), Get(Get(TplNested, n_db), n_deep) }

\* the parse machine at rest
Idle ==
    /\ InitRun(TplLoader)
    /\ AtRest
    /\ form = "options"
    /\ isClass = FALSE
    /\ prefix = NoPrefix
    /\ overrides = NoOverrides
    /\ sourcesGiven = FALSE
    /\ sources = <<>>
    /\ parser = "builtin"
    /\ processEnv = <<>>
    /\ fileSystem = FileSystem(AEnvFiles[1], AEnvFiles[1])

machine == <<target, tmpl, options, world, merged, warnings, walkWarnings, calls,
             err, prev, ncalls, stepper>>

\* a field name and a prefix for buildEnvVarName
InitNames ==
    /\ Idle
    /\ applied = "none"
    /\ returned = <<>>
    /\ \E key \in FieldNames, p \in {NoPrefix, PrefixX} :
           args = [of |-> "name", prefix |-> p, key |-> key, from |-> <<>>]

\* a text and a type for coerceValue
InitTexts ==
    /\ Idle
    /\ applied = "none"
    /\ returned = <<>>
    /\ \E value \in BooleanTexts, type \in {"boolean", "string"} :
           args = [of |-> "text", value |-> value, type |-> type]

\* a prefix, a record and a flat map for loadNestedFromEnv
InitRecords ==
    /\ Idle
    /\ applied = "none"
    /\ returned = <<>>
    /\ \E p \in {NoPrefix, <<"D","B">>, <<"D","B","_","D","E","E","P">>},
          defaultValue \in DefaultRecords, S \in Picks(CandNested) :
           args = [of |-> "record", prefix |-> p, defaultValue |-> defaultValue,
                   envSource |-> EntriesOf(NoPrefix, CandNested, S, 1)]

\* the most lines a file text holds
MaxLines == 2

\* the lines the file texts are made of: plain, padded and quoted values,
\* quotes that do not pair, a lone quote, a comment, a blank line, a line
\* without '=', a value that holds '=', an empty key, the key __proto__, an
\* empty value, an empty quoted value and a value that only starts quoted
SampleLines ==
    { <<"A","=","1">>,
      <<" ","A"," ","="," ","\"","q","\""," ">>,
      <<"A","=","'","s","'">>,
      <<"B","=","\"","x","'">>,
      <<"B","=","\"">>,
      <<"#"," ","A","=","9">>,
      <<" "," ">>,
      <<"B","A","D">>,
      <<"B","=","2","=","3">>,
      <<"=","v">>,
      <<"_","_","p","r","o","t","o","_","_","=","x">>,
      <<"A","=">>,
      <<"B","=","\"","\"">>,
      <<"A","=","\"","a","\""," ","b">> }

\* the texts of one to MaxLines lines
RECURSIVE FileTextsOf(_)
FileTextsOf(n) ==
    IF n = 1 THEN SampleLines
    ELSE FileTextsOf(n - 1)
             \cup { text \o <<"\n">> \o line :
                      text \in { t \in FileTextsOf(n - 1) :
                                   Len(split(t, "\n")) = n - 1 },
                      line \in SampleLines }

FileTexts == FileTextsOf(MaxLines)

\* a file text for parseEnvFile
InitFiles ==
    /\ Idle
    /\ applied = "none"
    /\ returned = <<>>
    /\ \E content \in FileTexts : args = [of |-> "file", content |-> content]

InitHelpers == InitNames \/ InitTexts \/ InitRecords \/ InitFiles

\* AutoEnvParse.buildEnvVarName(prefix, key)
BuildEnvVarName ==
    /\ args.of = "name"
    /\ applied = "none"
    /\ returned' = buildEnvVarName(args.prefix, args.key)
    /\ applied' = "buildEnvVarName"
    /\ UNCHANGED <<args, machine>>

\* AutoEnvParse.buildEnvVarName(prefix, key) with the key the first call
\* returned as its field name; args.from keeps the name that key came from
BuildEnvVarNameAgain ==
    /\ args.of = "name"
    /\ applied = "buildEnvVarName"
    /\ args' = [args EXCEPT !.key = returned, !.from = args.key]
    /\ returned' = buildEnvVarName(args.prefix, returned)
    /\ applied' = "buildEnvVarName twice"
    /\ UNCHANGED machine

\* AutoEnvParse.coerceValue(value, type)
CoerceValue ==
    /\ args.of = "text"
    /\ applied = "none"
    /\ returned' = coerceValue(args.value, args.type)
    /\ applied' = "coerceValue"
    /\ UNCHANGED <<args, machine>>

\* AutoEnvParse.loadNestedFromEnv(prefix, defaultValue, envSource): args
\* holds after the call the record the caller passed as it then is
LoadNestedFromEnv ==
    /\ args.of = "record"
    /\ applied = "none"
    /\ LET call == loadNestedFromEnvCall(args.prefix, args.defaultValue, args.envSource)
       IN  /\ returned' = [result |-> call.result, fresh |-> call.fresh,
                           passed |-> args.defaultValue]
           /\ args' = [args EXCEPT !.defaultValue = call.defaultValue]
    /\ applied' = "loadNestedFromEnv"
    /\ UNCHANGED machine

\* AutoEnvParse.parseEnvFile(content), the parser loadSources uses when it is
\* given none
ParseEnvFile ==
    /\ args.of = "file"
    /\ applied = "none"
    /\ returned' = parseEnvFile(args.content)
    /\ applied' = "parseEnvFile"
    /\ UNCHANGED <<args, machine>>

NextHelpers ==
    \/ BuildEnvVarName
    \/ BuildEnvVarNameAgain
    \/ CoerceValue
    \/ LoadNestedFromEnv
    \/ ParseEnvFile

SpecHelpers == InitHelpers /\ [][NextHelpers]_vars

(***************************************************************************)
(* A call of parse followed step by step: one step per pass of a loop of   *)
(* loadSources, parseObject, applyArray, loadNestedFromEnv,                *)
(* applyComplexObject and parseObjectPropertiesRecursive, and one per      *)
(* return. A frame is a running call: the value it was given (subject),    *)
(* the object whose keys it loops over (obj), the template beside it, its  *)
(* key, the position of its loop (i) and the path of names that leads from *)
(* the target to its object. The call has no overrides.                    *)
(***************************************************************************)
Frame(fn, subject, obj, template, envVarName, path, indices) ==
    [fn |-> fn, subject |-> subject, obj |-> obj, template |-> template,
     envVarName |-> envVarName, path |-> path, indices |-> indices, i |-> 1]

\* the keys the loop of a frame goes through: the indices found for
\* applyArray, the own keys for..in gives for the others
keysOf(f) ==
    IF f.fn = "applyArray" THEN [p \in 1..Len(f.indices) |-> IntToStr(f.indices[p])]
    ELSE IF f.obj.k = "obj" THEN VisitedKeys(f.obj)
    ELSE <<>>

\* the calls a pass of the loop of frame f makes for its key: a pass for a
\* key that re-enters the frame's own object
callsOfPassRevisiting(f, key, envSource) ==
    << Frame(f.fn, f.obj, f.obj, f.template, f.envVarName, f.path, f.indices) >>

\* the calls a pass of the loop of frame f makes for its key, as frames
callsOfPass(f, key, envSource) ==
    LET path == Append(f.path, key)
    IN  CASE f.fn = "parseObject" ->
               LET value == Get(f.obj, key)
                   envVarName == buildEnvVarName(f.envVarName, key)
               IN  CASE value.k \in {"null", "undef"} -> <<>>
                     [] isArray(value) ->
                          LET indices == detectArrayIndices(envVarName, envSource)
                          IN  IF /\ Len(value.v) > 0
                                 /\ \E p \in 1..Len(value.v) : value.v[p].k # "re"
                                 /\ Len(indices) > 0
                              THEN << Frame("applyArray", value, value, value.v[1],
                                            envVarName, path, indices) >>
                              ELSE <<>>
                     [] isPlainObject(value) ->
                          << Frame("loadNestedFromEnv", value,
                                   mergeStructured(value, envVarName, envSource),
                                   Null, envVarName, path, <<>>) >>
                     [] typeof(value) = "object" ->
                          << Frame("applyComplexObject", value,
                                   IF value.k = "obj"
                                   THEN mergeStructured(value, envVarName, envSource)
                                   ELSE value,
                                   Null, envVarName, path, <<>>) >>
                     [] OTHER -> <<>>
          [] f.fn = "applyArray" ->
               IF IsNonArrayObject(f.template)
               THEN << Frame("parseObjectPropertiesRecursive", f.template,
                             JsonClone(f.template), f.template,
                             f.envVarName \o <<"_">> \o key, path, <<>>) >>
               ELSE <<>>
          [] f.fn = "loadNestedFromEnv" ->
               LET value == Get(f.obj, key)
               IN  IF isPlainObject(value)
                   THEN << Frame("loadNestedFromEnv", value, value, Null,
                                 buildEnvVarName(f.envVarName, key), path, <<>>) >>
                   ELSE <<>>
          [] f.fn = "applyComplexObject" ->
               LET nestedProp == Get(f.obj, key)
                   nestedEnvKey == buildEnvVarName(f.envVarName, key)
               IN  IF IsNonArrayObject(nestedProp)
                   THEN << Frame("applyComplexObject", nestedProp,
                                 IF nestedProp.k = "obj"
                                 THEN mergeStructured(nestedProp, nestedEnvKey, envSource)
                                 ELSE nestedProp,
                                 Null, nestedEnvKey, path, <<>>) >>
                   ELSE <<>>
          [] OTHER ->
               LET templateValue == Get(f.template, key)
               IN  IF IsNonArrayObject(templateValue)
                   THEN << Frame("parseObjectPropertiesRecursive", templateValue,
                                 Get(f.obj, key), templateValue,
                                 childEnvVarName(f.envVarName, key), path, <<>>) >>
                   ELSE <<>>

Top == frames[Len(frames)]

\* a target and a flat map of a walker scenario, or a sources list and the
\* files of a loader scenario, and a call of parse about to be made
InitSteps ==
    /\ NoHelpers
    /\ phase = "called"
    /\ frames = <<>>
    /\ visits = <<>>
    /\ steps = 0
    /\ form = "options"
    /\ isClass = FALSE
    /\ overrides = NoOverrides
    /\ \/ \E i \in 1..Len(Scenarios) :
              \E p \in 1..Len(Scenarios[i].prefixes), S \in Picks(Scenarios[i].cands) :
                  /\ NoOverrides \in Range(Scenarios[i].overrides)
                  /\ InitRun(Scenarios[i].tmpl)
                  /\ prefix = Scenarios[i].prefixes[p]
                  /\ sourcesGiven = TRUE
                  /\ sources = <<"env">>
                  /\ parser = "builtin"
                  /\ processEnv = EntriesOf(prefix, Scenarios[i].cands, S, 1)
                  /\ fileSystem = FileSystem(AEnvFiles[1], AEnvFiles[1])
       \/ \E e \in 1..Len(ProcessEnvs), d \in 1..Len(DotEnvFiles),
             a \in 1..Len(AEnvFiles) :
              /\ InitRun(TplLoader)
              /\ prefix = <<>>
              /\ sourcesGiven \in BOOLEAN
              /\ sources \in SeqsUpTo(SourceNames, MaxSources)
              /\ sourcesGiven = FALSE => sources = <<>>
              /\ parser \in {"builtin", "throws"}
              /\ processEnv = ProcessEnvs[e]
              /\ fileSystem = FileSystem(DotEnvFiles[d], AEnvFiles[a])

\* parse calls loadSources, which starts with an empty map and the last
\* source of the list
EnterLoadSources ==
    /\ phase = "called"
    /\ steps' = steps + 1
    /\ phase' = "running"
    /\ frames' = << [Frame("loadSources", Null, Null, Null, <<>>, <<>>, <<>>)
                        EXCEPT !.i = Len(effectiveSources)] >>
    /\ merged' = <<>>
    /\ warnings' = <<>>
    /\ prev' = instance
    /\ ncalls' = ncalls + 1
    /\ UNCHANGED <<target, tmpl, options, world, walkWarnings, calls, err,
                   helpers, visits>>

\* one pass of the loop of loadSources
LoadSourcesPass ==
    /\ phase = "running"
    /\ steps' = steps + 1
    /\ Top.fn = "loadSources"
    /\ Top.i >= 1
    /\ \E acc \in { loadSource(Loaded(merged, warnings), effectiveSources[Top.i],
                               processEnv, fileSystem, parser) } :
           /\ merged' = acc.merged
           /\ warnings' = acc.warnings
    /\ frames' = [frames EXCEPT ![Len(frames)].i = @ - 1]
    /\ UNCHANGED <<target, tmpl, options, world, walkWarnings, calls, err, prev,
                   ncalls, helpers, phase, visits>>

\* loadSources returns and parse calls parseObject, which throws for a
\* prefix that is not of upper-case letters and digits
EnterParseObject ==
    /\ phase = "running"
    /\ steps' = steps + 1
    /\ Top.fn = "loadSources"
    /\ Top.i < 1
    /\ IF prefix # <<>> /\ ~PrefixPatternOk(prefix)
       THEN /\ err' = Err("InvalidPrefix", prefix)
            /\ frames' = <<>>
            /\ phase' = "done"
       ELSE /\ err' = NoError
            /\ frames' = << Frame("parseObject", instance, instance, Null,
                                  prefix, <<>>, <<>>) >>
            /\ phase' = "running"
    /\ UNCHANGED <<target, tmpl, options, world, merged, warnings, walkWarnings,
                   calls, prev, ncalls, helpers, visits>>

\* one pass of the loop of the running call: the key is visited, and the
\* calls the pass makes for it are entered
VisitKey ==
    /\ phase = "running"
    /\ steps' = steps + 1
    /\ Top.fn # "loadSources"
    /\ Top.i <= Len(keysOf(Top))
    /\ LET key == keysOf(Top)[Top.i]
       IN  /\ visits' = Append(visits, Append(Top.path, key))
           /\ frames' = [frames EXCEPT ![Len(frames)].i = @ + 1]
                            \o callsOfPass(Top, key, merged)
    /\ UNCHANGED <<target, tmpl, options, world, merged, warnings, walkWarnings,
                   calls, err, prev, ncalls, helpers, phase>>

\* the loop of the running call is over and the call returns to its caller
ReturnToCaller ==
    /\ phase = "running"
    /\ steps' = steps + 1
    /\ Top.fn # "loadSources"
    /\ Top.i > Len(keysOf(Top))
    /\ Len(frames) > 1
    /\ frames' = SubSeq(frames, 1, Len(frames) - 1)
    /\ UNCHANGED <<target, tmpl, options, world, merged, warnings, walkWarnings,
                   calls, err, prev, ncalls, helpers, phase, visits>>

\* the loop of parseObject is over: parse returns the object populated
ReturnFromParse ==
    /\ phase = "running"
    /\ steps' = steps + 1
    /\ Top.fn # "loadSources"
    /\ Top.i > Len(keysOf(Top))
    /\ Len(frames) = 1
    /\ frames' = <<>>
    /\ phase' = "done"
    /\ \E walked \in { parseObject(instance, prefix, overrides, merged, processEnv) } :
           /\ target' = walked.target
           /\ walkWarnings' = walked.warnings
           /\ calls' = walked.calls
           /\ err' = walked.err
    /\ UNCHANGED <<tmpl, options, world, merged, warnings, prev, ncalls, helpers,
                   visits>>

NextSteps ==
    \/ EnterLoadSources
    \/ LoadSourcesPass
    \/ EnterParseObject
    \/ VisitKey
    \/ ReturnToCaller
    \/ ReturnFromParse

\* a step of the call, whichever it is
Step == phase # "done" /\ steps' = steps + 1

\* the code is one synchronous call that nothing suspends: while it has not
\* returned or thrown, it takes its next step
SpecSteps == InitSteps /\ [][NextSteps]_vars /\ WF_steps(Step)

(***************************************************************************)
(* The properties checked of the machine. A property of one call of parse  *)
(* relates prev, the target before the call, to target, the target after   *)
(* it, and to merged, the flat map of the call.                            *)
(***************************************************************************)
Min(S) == CHOOSE x \in S : \A y \in S : x <= y

\* the elements of a set of numbers in ascending order
RECURSIVE Ascending(_)
Ascending(S) == IF S = {} THEN <<>> ELSE <<Min(S)>> \o Ascending(S \ {Min(S)})

\* parse has been called with an options object
Called == ncalls >= 1 /\ form = "options"

\* the last call returned
Returned == Called /\ err = NoError

\* the own top-level fields the engine itself handles
EngineFields == { k \in Range(OwnKeys(prev)) : k \notin DOMAIN overrides }

\* what the source at position i of the sources list supplies: the live
\* environment, the pairs of a file that exists, is read and is parsed, and
\* nothing for a source that fails to load
SuppliedBy(i) ==
    LET source == effectiveSources[i]
    IN  IF source = "env" THEN processEnv
        ELSE IF /\ fileSystem[source].exists
                /\ fileSystem[source].readable
                /\ parser = "builtin"
        THEN parseEnvFile(fileSystem[source].content)
        ELSE <<>>

Suppliers(key) ==
    { i \in 1..Len(effectiveSources) : Defined(SuppliedBy(i), key) }

SuppliedKeys == UNION { Keys(SuppliedBy(i)) : i \in 1..Len(effectiveSources) }

\* C1: source priority. After a call of parse, every key that at least one
\* loaded source supplies is in the merged flat map, with the value of the
\* supplying source that stands first in the sources list.
C1_SourcePriority ==
    Called =>
        \A key \in SuppliedKeys :
            /\ Defined(merged, key)
            /\ Lookup(merged, key) = Lookup(SuppliedBy(Min(Suppliers(key))), key)

\* a call whose sources list names two loaded sources that give one key two
\* values
C1_Witness ==
    /\ Called
    /\ \E key \in SuppliedKeys :
           \E i, j \in Suppliers(key) :
               /\ i < j
               /\ Lookup(SuppliedBy(i), key) # Lookup(SuppliedBy(j), key)

\* the JSON object the flat map holds at key K, if it holds valid JSON object
\* text there
JsonObjectAt(K) ==
    IF NonEmpty(merged, K)
    THEN LET parsed == JsonParse(Lookup(merged, K))
         IN  IF parsed.ok /\ isPlainObject(parsed.val)
             THEN [has |-> TRUE, obj |-> parsed.val]
             ELSE [has |-> FALSE, obj |-> Null]
    ELSE [has |-> FALSE, obj |-> Null]

\* the type a default coerces to
CoercionType(default) ==
    IF default.k \in {"null", "undef"} THEN "string" ELSE typeof(default)

\* C2: nested-record priority. For a plain-record field with key K, each
\* leaf f of the record is after parse (1) the coerced value of entry K_f
\* when the entry is present and not empty, else (2) the value the JSON
\* object at K gives for f, else (3) the default. The coerced value is taken
\* to be right when it is coerced to the type of the default or to the type
\* of the value the JSON object gives.
C2_NestedRecordPriority ==
    Returned =>
        \A k \in EngineFields :
            isPlainObject(Get(prev, k)) =>
                LET K == buildEnvVarName(prefix, k)
                    record == Get(prev, k)
                    json == JsonObjectAt(K)
                IN  \A f \in Range(OwnKeys(record)) :
                        IsPrimitiveValue(Get(record, f)) =>
                            LET Kf == K \o <<"_">> \o toUpperCase(toSnakeCase(f))
                                default == Get(record, f)
                                given == json.has /\ HasOwn(json.obj, f)
                                after == Get(Get(target, k), f)
                            IN  IF NonEmpty(merged, Kf)
                                THEN \/ after = coerceValue(Lookup(merged, Kf),
                                                            CoercionType(default))
                                     \/ /\ given
                                        /\ after = coerceValue(Lookup(merged, Kf),
                                                       CoercionType(Get(json.obj, f)))
                                ELSE IF given THEN after = Get(json.obj, f)
                                ELSE after = default

\* the integers i such that a key of the flat map starts with K_i_
ClaimedIndices(K) ==
    { DigitsVal(Sub(key, Len(K) + 2, Len(K) + 1 + DigitRun(key, Len(K) + 2))) :
        key \in { q \in Keys(merged) :
                    /\ startsWith(q, K \o <<"_">>)
                    /\ DigitRun(q, Len(K) + 2) >= 1
                    /\ At(q, Len(K) + 2 + DigitRun(q, Len(K) + 2)) = "_" } }

IsPatternArray(a) == \A i \in 1..Len(a.v) : a.v[i].k = "re"

\* the array fields positional keys apply to: not empty, not all patterns
PositionalFields ==
    { k \in EngineFields :
        /\ isArray(Get(prev, k))
        /\ Len(Get(prev, k).v) > 0
        /\ ~IsPatternArray(Get(prev, k)) }

\* C3: array compaction. For a non-empty, non-pattern array field with key
\* K, when the set I of the integers i such that a key of the flat map
\* starts with K_i_ is not empty, the array has after parse |I| elements, and
\* the element at position p is the one built from the keys under K_<the
\* p-th smallest of I>.
C3_ArrayCompaction ==
    Returned =>
        \A k \in PositionalFields :
            LET K == buildEnvVarName(prefix, k)
                I == Ascending(ClaimedIndices(K))
                after == Get(target, k)
            IN  I # <<>> =>
                    /\ isArray(after)
                    /\ Len(after.v) = Len(I)
                    /\ \A p \in 1..Len(I) :
                           after.v[p] =
                               parseArrayElement(K \o <<"_">> \o IntToStr(I[p]),
                                                 Get(prev, k).v[1], merged)

\* a call with a non-empty, non-pattern array field whose key holds a JSON
\* array while a positional key names an index of it
C4_Witness ==
    /\ Returned
    /\ \E k \in PositionalFields :
           LET K == buildEnvVarName(prefix, k)
           IN  /\ NonEmpty(merged, K)
               /\ JsonParse(Lookup(merged, K)).ok
               /\ isArray(JsonParse(Lookup(merged, K)).val)
               /\ ClaimedIndices(K) # {}
               /\ Get(target, k) # Get(prev, k)

\* the flat map without its entry at K, and with no entry but the one at K
WithoutKey(env, K) == SelectSeq(env, LAMBDA e : e.k # K)

OnlyKey(env, K) == SelectSeq(env, LAMBDA e : e.k = K)

\* C4: array dual-format priority. For a non-empty array field with key K
\* that is not a pattern array, when the flat map holds a JSON array at K and
\* a positional key K_<i>_..., the result is the one the flat map without
\* its entry at K gives. For a pattern array the result is the one the entry
\* at K alone gives, and the default when there is no entry at K.
C4_ArrayDualFormat ==
    Returned =>
        \A k \in EngineFields :
            (isArray(Get(prev, k)) /\ Len(Get(prev, k).v) > 0) =>
                LET K == buildEnvVarName(prefix, k)
                    after == Get(target, k)
                IN  IF IsPatternArray(Get(prev, k))
                    THEN /\ after = Get(applyArray(prev, k, K, OnlyKey(merged, K)), k)
                         /\ ~NonEmpty(merged, K) => after = Get(prev, k)
                    ELSE (/\ NonEmpty(merged, K)
                          /\ JsonParse(Lookup(merged, K)).ok
                          /\ isArray(JsonParse(Lookup(merged, K)).val)
                          /\ ClaimedIndices(K) # {})
                         => /\ after = Get(applyArray(prev, k, K, WithoutKey(merged, K)), k)
                            /\ isArray(after)
                            /\ Len(after.v) >= Cardinality(ClaimedIndices(K))
                            /\ after # JsonParse(Lookup(merged, K)).val

\* whether a key of the flat map is K or lies under K: starts, letter case
\* set aside, with K_
KeyAtOrUnder(K) ==
    \E q \in Keys(merged) :
        \/ q = K
        \/ startsWith(toLowerCase(q), toLowerCase(K \o <<"_">>))

\* the field k holds after the call what it held before it; a plain record
\* is held as the copy JSON.parse(JSON.stringify(...)) makes of it
Kept(k) ==
    \/ Get(target, k) = Get(prev, k)
    \/ /\ isPlainObject(Get(prev, k))
       /\ Get(target, k) = JsonClone(Get(prev, k))

\* C5: default preservation. With no overrides, every top-level field k of
\* whatever kind whose key fullKey(prefix, k) is not a key of the flat map
\* has after parse the value it had before.
C5_DefaultPreservation ==
    (Returned /\ overrides = NoOverrides) =>
        \A k \in Range(OwnKeys(prev)) :
            ~Defined(merged, buildEnvVarName(prefix, k)) => Kept(k)

\* C5 as amended: with no overrides, every top-level field k such that no
\* key of the flat map is fullKey(prefix, k) or starts, letter case set
\* aside, with fullKey(prefix, k) followed by '_' has after parse the value
\* it had before, a plain record as its JSON copy.
C5_DefaultPreservationAmended ==
    (Returned /\ overrides = NoOverrides) =>
        \A k \in Range(OwnKeys(prev)) :
            ~KeyAtOrUnder(buildEnvVarName(prefix, k)) => Kept(k)

\* a call that changes one field and leaves alone an array, record or
\* composite field that no key of the flat map names or lies under
C5_Witness ==
    /\ Returned
    /\ overrides = NoOverrides
    /\ \E k, other \in Range(OwnKeys(prev)) :
           /\ typeof(Get(prev, k)) = "object"
           /\ Get(prev, k) # Null
           /\ ~KeyAtOrUnder(buildEnvVarName(prefix, k))
           /\ Get(target, other) # Get(prev, other)

\* the fields of the value after that are primitive in the default have the
\* type the default coerces to, where they are not the default itself
RECURSIVE TypesKept(_, _)
TypesKept(default, after) ==
    IF IsPrimitiveValue(default)
    THEN after = default \/ typeof(after) = CoercionType(default)
    ELSE IF isArray(default)
    THEN (isArray(after) /\ Len(default.v) > 0) =>
             \A p \in 1..Len(after.v) :
                 IsNonArrayObject(default.v[1]) => TypesKept(default.v[1], after.v[p])
    ELSE IsNonArrayObject(after) =>
             \A f \in Range(OwnKeys(default)) :
                 HasOwn(after, f) => TypesKept(Get(default, f), Get(after, f))

\* C6: type fidelity. After parse every primitive field at any depth that
\* the flat map overwrote has the runtime type of its default, string when
\* the default is null or undefined, whatever the flat map holds, a JSON
\* value for the enclosing record included.
C6_TypeFidelity ==
    Returned => \A k \in EngineFields : TypesKept(Get(prev, k), Get(target, k))

\* C7: idempotence. With no overrides, a second call of parse on the same
\* target with the same flat map leaves the target as the first call left
\* it, array fields built from positional keys included.
C7_Idempotence ==
    (ncalls >= 2 /\ Returned /\ ~isClass /\ overrides = NoOverrides) => target = prev

\* where the default holds an array the value after holds an array, and
\* where it holds a record or a composite the value after holds an object
RECURSIVE ShapeKept(_, _)
ShapeKept(default, after) ==
    IF isArray(default)
    THEN /\ isArray(after)
         /\ Len(default.v) > 0 =>
                \A p \in 1..Len(after.v) :
                    IsNonArrayObject(default.v[1]) => ShapeKept(default.v[1], after.v[p])
    ELSE IF IsNonArrayObject(default)
    THEN /\ IsNonArrayObject(after)
         /\ \A f \in Range(OwnKeys(default)) :
                HasOwn(after, f) => ShapeKept(Get(default, f), Get(after, f))
    ELSE TRUE

\* C8: shape preservation. After parse, whatever the flat map holds, every
\* field whose default is an array holds an array and every field whose
\* default is a record or a composite holds an object, at the top level, in
\* nested records, in composites and in array elements.
C8_ShapePreservation ==
    Returned => \A k \in EngineFields : ShapeKept(Get(prev, k), Get(target, k))

\* the prefix matches ^[A-Z0-9]+$
MatchesPrefixPattern(p) ==
    /\ p # <<>>
    /\ \A i \in 1..Len(p) :
           p[i] \in {"A", "B", "C", "D", "E", "F", "G", "H", "I", "J", "K", "L", "M",
                     "N", "O", "P", "Q", "R", "S", "T", "U", "V", "W", "X", "Y", "Z",
                     "0", "1", "2", "3", "4", "5", "6", "7", "8", "9"}

OverriddenFields == SelectSeq(OwnKeys(prev), LAMBDA k : k \in DOMAIN overrides)

\* C10: override bypass. A call that returns has called the override of each
\* own top-level field that has one exactly once, in the order of the
\* fields, with the target and fullKey(prefix, k), and no other override;
\* the field holds after the call what it held before it.
C10_OverrideBypass ==
    Returned =>
        /\ Len(calls) = Len(OverriddenFields)
        /\ \A i \in 1..Len(calls) :
               /\ calls[i].field = OverriddenFields[i]
               /\ calls[i].envVarName = buildEnvVarName(prefix, OverriddenFields[i])
               /\ OwnKeys(calls[i].target) = OwnKeys(prev)
               /\ Get(calls[i].target, OverriddenFields[i]) = Get(prev, OverriddenFields[i])
               /\ overrides[OverriddenFields[i]].kind = "spy" =>
                      Get(target, OverriddenFields[i]) = Get(prev, OverriddenFields[i])

\* a call with an override for a field whose key the flat map holds, and
\* an override under a name that is no own field of the target
C10_Witness ==
    /\ Returned
    /\ \E k \in Range(OwnKeys(prev)) :
           /\ k \in DOMAIN overrides
           /\ NonEmpty(merged, buildEnvVarName(prefix, k))
    /\ \E n \in DOMAIN overrides : n \notin Range(OwnKeys(prev))
    /\ target # prev

\* the source at position i of the sources list is a file that does not
\* exist, cannot be read, or that the parser throws on
FailsToLoad(i) ==
    LET source == effectiveSources[i]
    IN  /\ source # "env"
        /\ \/ ~fileSystem[source].exists
           \/ ~fileSystem[source].readable
           \/ parser # "builtin"

\* the positions of the sources list from position i down to the first, in
\* that order, of the sources that fail to load (failing) or of the others
RECURSIVE Downward(_, _)
Downward(i, failing) ==
    IF i < 1 THEN <<>>
    ELSE (IF FailsToLoad(i) = failing THEN <<i>> ELSE <<>>) \o Downward(i - 1, failing)

\* the merge of the sources at the positions of a list, each written over
\* what the ones before it in the list gave
RECURSIVE MergeOf(_)
MergeOf(positions) ==
    IF positions = <<>> THEN <<>>
    ELSE AssignEnv(MergeOf(SubSeq(positions, 1, Len(positions) - 1)),
                   SuppliedBy(positions[Len(positions)]))

FailedSources == Downward(Len(effectiveSources), TRUE)

RemainingSources == Downward(Len(effectiveSources), FALSE)

\* C11: source failures are non-fatal. Whatever the sources list, the call
\* does not fail in loadSources; each file source that does not exist, cannot
\* be read or whose parser throws gives exactly one warning, which names it;
\* the merged map is the merge of the remaining sources in their priority
\* order, and parse applies it to the target.
C11_SourceFailuresNonFatal ==
    Called =>
        /\ Len(warnings) = Len(FailedSources)
        /\ \A w \in 1..Len(warnings) :
               warnings[w].source = effectiveSources[FailedSources[w]]
        /\ merged = MergeOf(RemainingSources)
        /\ LET walked == parseObject(prev, prefix, overrides,
                                     MergeOf(RemainingSources), processEnv)
           IN  /\ target = walked.target
               /\ err = walked.err

\* a call whose sources list names a file that fails to load and a source
\* that loads and whose values the call applies to the target
C11_Witness ==
    /\ Returned
    /\ FailedSources # <<>>
    /\ \E w \in 1..Len(warnings) : warnings[w].what = "failed to load"
    /\ \E i \in 1..Len(RemainingSources) : SuppliedBy(RemainingSources[i]) # <<>>
    /\ target # prev

\* the last call was parse(target, prefix, overrides), the call of version 2
CalledLegacy == ncalls >= 1 /\ form = "legacy"

CamelBoundary(name, i) ==
    /\ i >= 2
    /\ IsLower(name[i - 1])
    /\ IsUpper(name[i])

\* the boundary between a run of capitals and a capital followed by a
\* lower-case letter, before position i of a name
CapsRunBoundary(name, i) ==
    /\ i >= 2
    /\ i + 1 <= Len(name)
    /\ IsUpper(name[i - 1])
    /\ IsUpper(name[i])
    /\ IsLower(name[i + 1])

\* the name in capitals with '_' at each boundary, from position i on
RECURSIVE SegmentedFrom(_, _)
SegmentedFrom(name, i) ==
    IF i > Len(name) THEN <<>>
    ELSE (IF CamelBoundary(name, i) \/ CapsRunBoundary(name, i) THEN <<"_">> ELSE <<>>)
             \o <<ToUpperChar(name[i])>> \o SegmentedFrom(name, i + 1)

\* C13: name derivation. The local key of a field name is the name in
\* capitals with '_' at each camelCase boundary and between a run of
\* capitals and a following capital-then-lower-case pair; a name of one word
\* changes in case only. The key under a prefix is the prefix, '_' and the
\* local key.
C13_NameDerivation ==
    applied = "buildEnvVarName" =>
        /\ args.prefix = NoPrefix => returned = SegmentedFrom(args.key, 1)
        /\ args.prefix # NoPrefix =>
               returned = args.prefix \o <<"_">> \o SegmentedFrom(args.key, 1)
        /\ (\A i \in 1..Len(args.key) : ~IsUpper(args.key[i])) =>
               SegmentedFrom(args.key, 1) = toUpperCase(args.key)

\* buildEnvVarName applied to a name with a camelCase boundary and, later, a
\* run of capitals before a capital-then-lower-case pair
C13_Witness ==
    /\ applied = "buildEnvVarName"
    /\ args.prefix = NoPrefix
    /\ \E i, j \in 1..Len(args.key) :
           /\ i < j
           /\ CamelBoundary(args.key, i)
           /\ CapsRunBoundary(args.key, j)
    /\ Len(returned) = Len(args.key) + 2

\* a step of a field path: into a field, or into the element of an array
\* that the keys give the index i
FieldStep(name) == [field |-> TRUE, name |-> name, index |-> 0]

IndexStep(i) == [field |-> FALSE, name |-> <<>>, index |-> i]

\* the indices a positional key may name
Indices == 0..10

\* the paths from a value down to its primitive leaves, through the nodes
\* the walk goes into: from the target into plain records, composites and
\* the elements of an array of objects; from a plain record into plain
\* records; from a composite or an element into objects
RECURSIVE LeafPaths(_, _)
LeafPaths(value, within) ==
    IF IsPrimitiveValue(value) THEN { <<>> }
    ELSE IF isArray(value)
    THEN IF within = "target" /\ Len(value.v) > 0 /\ IsNonArrayObject(value.v[1])
         THEN { <<IndexStep(i)>> \o rest :
                    i \in Indices, rest \in LeafPaths(value.v[1], "element") }
         ELSE {}
    ELSE IF ~IsNonArrayObject(value) THEN {}
    ELSE IF within = "record" /\ ~isPlainObject(value) THEN {}
    ELSE LET into == CASE within = "target" /\ isPlainObject(value) -> "record"
                       [] within = "target" -> "composite"
                       [] OTHER -> within
         IN  UNION { { <<FieldStep(f)>> \o rest : rest \in LeafPaths(Get(value, f), into) } :
                         f \in Range(OwnKeys(value)) }

\* the paths from the target down to its leaves
TargetPaths ==
    UNION { { <<FieldStep(f)>> \o rest : rest \in LeafPaths(Get(prev, f), "target") } :
                f \in EngineFields }

\* P_L(f1)_L(f2)_..._L(fn): the steps of a path joined by '_' after the
\* prefix, a field as its local key and an index in decimal
RECURSIVE ComposedKey(_, _)
ComposedKey(p, path) ==
    IF path = <<>> THEN p
    ELSE LET step == path[1]
             segment == IF step.field THEN SegmentedFrom(step.name, 1)
                        ELSE IntToStr(step.index)
         IN  ComposedKey(IF p = <<>> THEN segment ELSE p \o <<"_">> \o segment,
                         Tail(path))

\* the value a path leads to; an index step leads to the one element an
\* array holds that was built from the keys of one index, and in the
\* template to its first element
RECURSIVE ValueAt(_, _)
ValueAt(value, path) ==
    IF path = <<>> THEN value
    ELSE IF path[1].field THEN ValueAt(Get(value, path[1].name), Tail(path))
    ELSE ValueAt(value.v[1], Tail(path))

\* C14: uniform key composition. The lookup key of the leaf at field path
\* f1.f2...fn under prefix P is P_L(f1)_..._L(fn), with the decimal index as
\* a segment of its own after an array field, whether the nodes on the path
\* are plain records, composites or array elements: a flat map whose one
\* entry has that key and a value that is not empty sets that leaf to the
\* value coerced to the type of its default.
C14_UniformKeyComposition ==
    (Returned /\ Len(merged) = 1) =>
        \A path \in TargetPaths :
            (merged[1].k = ComposedKey(prefix, path) /\ merged[1].v # <<>>) =>
                ValueAt(target, path) =
                    coerceValue(merged[1].v, CoercionType(ValueAt(prev, path)))

\* a call that sets from its key a leaf of two words below a record of two
\* words, under a prefix
C14_Witness ==
    /\ Returned
    /\ Len(merged) = 1
    /\ prefix # NoPrefix
    /\ \E path \in TargetPaths :
           /\ Len(path) >= 3
           /\ merged[1].k = ComposedKey(prefix, path)
           /\ merged[1].v # <<>>
           /\ Len(merged[1].k) > Len(prefix) + Len(path)
                  + Len(path[1].name) + Len(path[Len(path)].name)
           /\ ValueAt(target, path) # ValueAt(prev, path)

\* the four words that mean true
TrueWords == { <<"t","r","u","e">>, <<"1">>, <<"y","e","s">>, <<"o","n">> }

\* a text without the white space around it: the longest stretch of it that
\* neither starts nor ends with white space
Trimmed(s) ==
    LET inside == { i \in 1..Len(s) : ~IsSpace(s[i]) }
    IN  IF inside = {} THEN <<>>
        ELSE SubSeq(s, Min(inside), CHOOSE i \in inside : \A j \in inside : j <= i)

\* C15: the boolean vocabulary. coerceValue(s, 'boolean') is true exactly
\* when s, without the white space around it and in lower case, is one of
\* true, 1, yes and on; for every other string it is false, and it throws
\* for none.
C15_BooleanVocabulary ==
    (applied = "coerceValue" /\ args.type = "boolean") =>
        /\ returned \in { Bool(TRUE), Bool(FALSE) }
        /\ returned = Bool(TRUE) <=> toLowerCase(Trimmed(args.value)) \in TrueWords

\* coerceValue applied to a word that means true, written with a capital
\* and with white space around it
C15_Witness ==
    /\ applied = "coerceValue"
    /\ args.type = "boolean"
    /\ returned = Bool(TRUE)
    /\ Len(args.value) >= 2
    /\ IsSpace(args.value[1])
    /\ IsSpace(args.value[Len(args.value)])
    /\ \E i \in 1..Len(args.value) : IsUpper(args.value[i])

\* the own fields of the target whose override is the closure of a helper
HelperFields(kind) ==
    { k \in Range(OwnKeys(prev)) : k \in DOMAIN overrides /\ overrides[k].kind = kind }

\* the warnings of the walk that name the key K
WarningsNaming(K) == { i \in 1..Len(walkWarnings) : walkWarnings[i] = K }

\* the position of a field in the order of the walk
PositionOf(k) == CHOOSE i \in 1..Len(OwnKeys(prev)) : OwnKeys(prev)[i] = k

\* the primitive fields without override that come after k are set from
\* the flat map
ProcessedAfter(k) ==
    \A j \in EngineFields :
        (/\ PositionOf(j) > PositionOf(k)
         /\ IsPrimitiveValue(Get(prev, j))
         /\ NonEmpty(merged, buildEnvVarName(prefix, j)))
        => Get(target, j) = coerceValue(Lookup(merged, buildEnvVarName(prefix, j)),
                                        CoercionType(Get(prev, j)))

\* C16: transform helper isolation. For a field k whose override is
\* transform(k, fn): when fn throws for the value the flat map holds at the
\* lookup key, parse does not throw, warns once naming the key, leaves
\* target[k] as it was and goes on to the fields after k; when the flat map
\* does not hold the key, target[k] is as it was and nothing is warned.
C16_TransformIsolation ==
    (Called /\ err.kind \notin {"InvalidEnum", "InvalidPrefix"}) =>
        \A k \in HelperFields("transform") :
            LET K == buildEnvVarName(prefix, k)
            IN  /\ err = NoError
                /\ (Defined(merged, K) /\ ~applyFn(overrides[k].fn, Lookup(merged, K)).ok) =>
                       /\ Cardinality(WarningsNaming(K)) = 1
                       /\ Get(target, k) = Get(prev, k)
                       /\ ProcessedAfter(k)
                /\ ~Defined(merged, K) =>
                       /\ WarningsNaming(K) = {}
                       /\ Get(target, k) = Get(prev, k)

\* the entries of the allowed values of the validator of field k that the
\* value matches under the validator's case mode
MatchesOf(k, value) ==
    { i \in 1..Len(overrides[k].allowedValues) :
        IF overrides[k].caseSensitive
        THEN overrides[k].allowedValues[i] = value
        ELSE toLowerCase(overrides[k].allowedValues[i]) = toLowerCase(value) }

\* the flat map holds at the key of the validated field k a value that is
\* not empty and matches no allowed entry
Rejected(k) ==
    /\ NonEmpty(merged, buildEnvVarName(prefix, k))
    /\ MatchesOf(k, Lookup(merged, buildEnvVarName(prefix, k))) = {}

\* C17: the enum validator. For a field k whose override is
\* enumValidator(k, allowed, {caseSensitive}): after a call that returns,
\* target[k] is its default or an element of allowed, spelt as allowed
\* spells it, the first entry that matches; when the value the flat map holds
\* at the lookup key is not empty and matches no entry, parse throws, the
\* error of the first such field naming its key and the value, and target[k]
\* is as it was; when the flat map holds no value or the empty one, target[k]
\* is as it was.
C17_EnumValidator ==
    (Called /\ err.kind # "InvalidPrefix") =>
        \A k \in HelperFields("enum") :
            LET K == buildEnvVarName(prefix, k)
                allowed == overrides[k].allowedValues
            IN  /\ Returned =>
                       \/ Get(target, k) = Get(prev, k)
                       \/ \E i \in 1..Len(allowed) : Get(target, k) = Str(allowed[i])
                /\ (Returned /\ NonEmpty(merged, K)) =>
                       Get(target, k) = Str(allowed[Min(MatchesOf(k, Lookup(merged, K)))])
                /\ Rejected(k) =>
                       /\ err.kind = "InvalidEnum"
                       /\ Get(target, k) = Get(prev, k)
                       /\ (\A j \in HelperFields("enum") :
                               Rejected(j) => PositionOf(k) <= PositionOf(j))
                          => err = Err("InvalidEnum",
                                       K \o <<":", " ">> \o Lookup(merged, K))
                /\ ~NonEmpty(merged, K) => Get(target, k) = Get(prev, k)

HasLowerCase(q) == \E i \in 1..Len(q) : IsLower(q[i])

\* C19: case-sensitive lookup. The flat map is case-sensitive: a key that
\* no lookup key and no positional-key prefix derived from the template
\* equals character for character, such as a lower-case variant of a derived
\* key, changes nothing: parse gives the same result with and without it,
\* for array fields and the detection of their indices too.
C19_CaseSensitiveLookup ==
    Returned =>
        \A q \in Keys(merged) :
            HasLowerCase(q) =>
                LET without == parseObject(prev, prefix, overrides,
                                           WithoutKey(merged, q), WithoutKey(processEnv, q))
                IN  /\ without.err = NoError
                    /\ target = without.target

\* localKey(x): toSnakeCase(x).toUpperCase()
LocalKey(x) == toUpperCase(toSnakeCase(x))

\* C20: name derivation is idempotent with an empty prefix. For every field
\* name x, fullKey('', x) = localKey(x), and deriving the key of a key
\* gives the key again: localKey(localKey(x)) = localKey(x).
C20_DerivationIdempotent ==
    args.of = "name" /\ args.prefix = NoPrefix =>
        /\ applied = "buildEnvVarName" => returned = LocalKey(args.key)
        /\ applied = "buildEnvVarName twice" =>
               /\ args.key = LocalKey(args.from)
               /\ returned = args.key
               /\ LocalKey(LocalKey(args.from)) = LocalKey(args.from)

\* buildEnvVarName applied, without a prefix, to a name with a camelCase
\* boundary and then to the key that gave
C20_Witness ==
    /\ applied = "buildEnvVarName twice"
    /\ args.prefix = NoPrefix
    /\ \E i \in 1..Len(args.from) : CamelBoundary(args.from, i)
    /\ args.key # args.from
    /\ returned = args.key

(***************************************************************************)
(* Claims C21 to C30                                                       *)
(***************************************************************************)
\* the flat map holds the empty string at key K
EmptyAt(K) == Defined(merged, K) /\ Lookup(merged, K) = <<>>

\* the coercion of '' for the type of a default
CoercionOfEmpty(default) ==
    CASE typeof(default) = "number" /\ default.k # "null" -> NaN
      [] typeof(default) = "boolean" -> Bool(FALSE)
      [] OTHER -> Str(<<>>)

\* the primitive fields directly inside an object
PrimitiveFieldsOf(x) ==
    { f \in Range(OwnKeys(x)) : IsPrimitiveValue(Get(x, f)) }

C22_WalkReadsMergedOnly ==
    Called =>
        /\ LET walked == parseObject(prev, prefix, overrides, merged, merged)
           IN  target = walked.target /\ err = walked.err
        /\ (\A i \in 1..Len(effectiveSources) : effectiveSources[i] # "env") =>
               LET other == parse(prev, Options(prefix, overrides, sourcesGiven,
                                                sources, parser),
                                  <<>>, <<>>, fileSystem)
               IN  target = other.walked.target /\ err = other.walked.err

\* the flat map holds at K a value that is not empty and cannot be used as
\* the structured string of the field whose default is given: it is not
\* valid JSON or, for a pattern array, a JSON array with an entry that is
\* not the source of a regular expression
MalformedAt(K, default) ==
    /\ NonEmpty(merged, K)
    /\ LET parsed == JsonParse(Lookup(merged, K))
       IN  \/ ~parsed.ok
           \/ /\ isArray(default)
              /\ Len(default.v) > 0
              /\ IsPatternArray(default)
              /\ isArray(parsed.val)
              /\ \E i \in 1..Len(parsed.val.v) :
                     ~RegExpSourceOk(ToStringJS(parsed.val.v[i]))

\* the array, record and composite fields the engine handles whose key holds
\* a malformed structured string
MalformedFields ==
    { k \in EngineFields :
        /\ IsObjectNotNull(Get(prev, k))
        /\ MalformedAt(buildEnvVarName(prefix, k), Get(prev, k)) }

\* an array field whose key the walk never reads: the array is empty, or
\* positional keys were found for it
KeyNotRead(k) ==
    /\ isArray(Get(prev, k))
    /\ \/ Len(Get(prev, k).v) = 0
       \/ /\ ~IsPatternArray(Get(prev, k))
          /\ detectArrayIndices(buildEnvVarName(prefix, k), merged) # <<>>

\* the field k is after the call what the flat map without the key K gives
AsIfAbsent(k, K) ==
    Get(target, k) = Get(applyField(prev, k, K, WithoutKey(merged, K)), k)

\* C23: malformed structured strings are not fatal. For an array, record or
\* composite field with key K whose value in the flat map is not empty and
\* is not valid JSON (or, for a pattern array, holds an entry that is no
\* regular-expression source), parse returns, emits one warning naming K and
\* leaves the field as the flat map without K gives it.
C23_MalformedNonFatal ==
    (Called /\ err.kind # "InvalidPrefix") =>
        \A k \in MalformedFields :
            LET K == buildEnvVarName(prefix, k)
            IN  /\ err = NoError
                /\ Cardinality(WarningsNaming(K)) = 1
                /\ AsIfAbsent(k, K)

\* C23 as amended: the same, with the warning emitted only where the walk
\* reads K: none for an empty array and none for an array that positional
\* keys were found for.
C23_MalformedNonFatalAmended ==
    (Called /\ err.kind # "InvalidPrefix") =>
        \A k \in MalformedFields :
            LET K == buildEnvVarName(prefix, k)
            IN  /\ err = NoError
                /\ Cardinality(WarningsNaming(K)) = IF KeyNotRead(k) THEN 0 ELSE 1
                /\ AsIfAbsent(k, K)

\* a call with a malformed value at the key of a record or composite field
\* that a dot-notation key under it changed all the same
C23_Witness ==
    /\ Returned
    /\ \E k \in MalformedFields :
           /\ ~isArray(Get(prev, k))
           /\ Cardinality(WarningsNaming(buildEnvVarName(prefix, k))) = 1
           /\ Get(target, k) # Get(prev, k)
           /\ Get(target, k) # JsonClone(Get(prev, k))

\* the names of the fields an object has from its prototype only
InheritedOnly(x) ==
    { ProtoFields(x)[i].n : i \in { j \in 1..Len(ProtoFields(x)) :
                                      ~HasOwn(x, ProtoFields(x)[j].n) } }

\* the key a field of name f has under the key K
KeyUnder(K, f) == K \o <<"_">> \o toUpperCase(toSnakeCase(f))

\* C24: inherited fields are never touched. After a call that returns, a
\* field the target, a composite or the template element of an array has
\* from its prototype only is no own field of the result and the prototype
\* holds what it held, whatever the flat map holds at the key derived from
\* the field's name; no override registered under such a name is called. (An
\* own field of that name appears in a composite only when the JSON object
\* at the composite's own key holds it.)
C24_InheritedUntouched ==
    Returned =>
        /\ ProtoFields(target) = ProtoFields(prev)
        /\ \A f \in InheritedOnly(prev) :
               /\ ~HasOwn(target, f)
               /\ \A c \in 1..Len(calls) : calls[c].field # f
        /\ \A k \in EngineFields :
               LET K == buildEnvVarName(prefix, k)
                   default == Get(prev, k)
                   after == Get(target, k)
               IN  /\ (default.k = "obj") =>
                          /\ ProtoFields(after) = ProtoFields(default)
                          /\ \A f \in InheritedOnly(default) :
                                 \/ ~HasOwn(after, f)
                                 \/ /\ JsonObjectAt(K).has
                                    /\ HasOwn(JsonObjectAt(K).obj, f)
                   /\ (k \in PositionalFields /\ isArray(after)) =>
                          \A p \in 1..Len(after.v) :
                              \A f \in InheritedOnly(default.v[1]) :
                                  ~HasOwn(after.v[p], f)

\* a call that returned while the flat map held the key derived from a
\* field the target inherits and the key derived from a field a composite
\* or a template element inherits
C24_Witness ==
    /\ Returned
    /\ \E f \in InheritedOnly(prev) : Defined(merged, buildEnvVarName(prefix, f))
    /\ \E k \in EngineFields :
           LET K == buildEnvVarName(prefix, k)
           IN  \/ /\ Get(prev, k).k = "obj"
                  /\ \E f \in InheritedOnly(Get(prev, k)) :
                         Defined(merged, KeyUnder(K, f))
               \/ /\ k \in PositionalFields
                  /\ \E f \in InheritedOnly(Get(prev, k).v[1]) :
                         Defined(merged, KeyUnder(K \o <<"_", "0">>, f))

\* the distinct integers i such that a key of the flat map starts, letter
\* case set aside, with K_<digits of i>_
DetectedIndices(K) ==
    { DigitsVal(Sub(key, Len(K) + 2, Len(K) + 1 + DigitRun(key, Len(K) + 2))) :
        key \in { q \in Keys(merged) :
                    /\ startsWith(toLowerCase(q), toLowerCase(K \o <<"_">>))
                    /\ DigitRun(q, Len(K) + 2) >= 1
                    /\ At(q, Len(K) + 2 + DigitRun(q, Len(K) + 2)) = "_" } }

\* C25: arrays of primitives under positional keys. For a non-empty array
\* field whose first default element is a primitive (and that is no pattern
\* array), when n >= 1 distinct positional indices are found under its key,
\* the field is after parse an array of n elements, each equal to the first
\* default element.
C25_PrimitiveArrayPositional ==
    Returned =>
        \A k \in PositionalFields :
            LET K == buildEnvVarName(prefix, k)
                default == Get(prev, k)
                after == Get(target, k)
            IN  (IsPrimitiveValue(default.v[1]) /\ DetectedIndices(K) # {}) =>
                    /\ isArray(after)
                    /\ Len(after.v) = Cardinality(DetectedIndices(K))
                    /\ \A p \in 1..Len(after.v) : after.v[p] = default.v[1]

\* a call on an array of two different numbers with two keys that name two
\* indices and hold numbers: the array holds the first default number twice
C25_Witness ==
    /\ Returned
    /\ \E k \in PositionalFields :
           LET K == buildEnvVarName(prefix, k)
           IN  /\ IsPrimitiveValue(Get(prev, k).v[1])
               /\ Len(Get(prev, k).v) = 2
               /\ Get(prev, k).v[2] # Get(prev, k).v[1]
               /\ Cardinality(DetectedIndices(K)) = 2
               /\ \A q \in Keys(merged) : parseNumber(Lookup(merged, q)) # NaN
               /\ Get(target, k) = Arr(<<Get(prev, k).v[1], Get(prev, k).v[1]>>)

\* the lines of a file text
LinesOf(content) == split(content, "\n")

\* a line that is not blank, is no comment and holds '='
Contributes(line) ==
    /\ trim(line) # <<>>
    /\ trim(line)[1] # "#"
    /\ \E i \in 1..Len(trim(line)) : trim(line)[i] = "="

\* the place of the first '=' of a line that holds one
FirstEq(line) == Min({ i \in 1..Len(trim(line)) : trim(line)[i] = "=" })

\* the trimmed text before the first '='
KeyOfLine(line) == trim(Sub(trim(line), 1, FirstEq(line) - 1))

\* the trimmed text after the first '='
RawValueOfLine(line) == trim(Sub(trim(line), FirstEq(line) + 1, Len(trim(line))))

\* wholly wrapped in a pair of double or of single quotes
Wrapped(v) == Len(v) >= 2 /\ v[1] = v[Len(v)] /\ v[1] \in {"\"", "'"}

ValueOfLine(line) ==
    LET v == RawValueOfLine(line)
    IN  IF Wrapped(v) THEN Sub(v, 2, Len(v) - 1) ELSE v

\* the places of the lines of a text that contribute the key
LinesWithKey(content, key) ==
    { i \in 1..Len(LinesOf(content)) :
        Contributes(LinesOf(content)[i]) /\ KeyOfLine(LinesOf(content)[i]) = key }

\* C26: the built-in flat-file parser. For every file text the map
\* parseEnvFile returns holds exactly the keys of the lines that are not
\* blank, are no comment and hold '=', each key being the trimmed text
\* before the first '=' and its value the trimmed text after it of the last
\* such line, with one layer of quotes removed if and only if that text is
\* wholly wrapped in a pair of double or of single quotes.
C26_BuiltInParser ==
    applied = "parseEnvFile" =>
        /\ Keys(returned) = { KeyOfLine(LinesOf(args.content)[i]) :
                                i \in { j \in 1..Len(LinesOf(args.content)) :
                                          Contributes(LinesOf(args.content)[j]) } }
        /\ \A i, j \in 1..Len(returned) : returned[i].k = returned[j].k => i = j
        /\ \A e \in 1..Len(returned) :
               LinesWithKey(args.content, returned[e].k) # {} =>
                   returned[e].v =
                       ValueOfLine(LinesOf(args.content)[
                           Max(LinesWithKey(args.content, returned[e].k))])

\* the object x with the fields before its n-th own field only
FieldsBefore(x, n) == [x EXCEPT !.v = Sub(x.v, 1, n - 1)]

\* the field whose override threw: the override called last
ThrowingField == calls[Len(calls)].field

\* C27: parse is not atomic under a throwing override. When the override of
\* field k throws (the closure of enumValidator does, for a value that is
\* not allowed), the call throws that error, naming the key of k and the
\* value; every field enumerated before k holds what the walk of the fields
\* before k alone gives it, and k and every field enumerated after k hold
\* what they held before the call.
C27_NotAtomic ==
    (Called /\ err.kind = "InvalidEnum") =>
        LET k == ThrowingField
            K == buildEnvVarName(prefix, k)
            before == parseObject(FieldsBefore(prev, PositionOf(k)), prefix,
                                  overrides, merged, processEnv)
        IN  /\ k \in HelperFields("enum")
            /\ err = Err("InvalidEnum", K \o <<":", " ">> \o Lookup(processEnv, K))
            /\ before.err = NoError
            /\ \A j \in Range(OwnKeys(prev)) :
                   IF PositionOf(j) < PositionOf(k)
                   THEN Get(target, j) = Get(before.target, j)
                   ELSE Get(target, j) = Get(prev, j)

\* a call that threw at the second field after it gave the first a new
\* value, which the first field still holds
C27_Witness ==
    /\ Called
    /\ err.kind = "InvalidEnum"
    /\ PositionOf(ThrowingField) = 2
    /\ Get(prev, n_mode) = Str(<<"d","e","v">>)
    /\ Get(target, n_mode) = Str(<<"p","r","o","d">>)

\* the JSON object at the key K of a top-level field holds the field f, and
\* so replaces what the field holds under that name
ReplacedFromAbove(K, f) == JsonObjectAt(K).has /\ HasOwn(JsonObjectAt(K).obj, f)

\* the primitive v after the dot-notation key Kl, if the flat map holds a
\* non-empty value there
AfterDotKey(v, Kl) ==
    IF NonEmpty(merged, Kl) THEN coerceValue(Lookup(merged, Kl), typeof(v)) ELSE v

ReadOrParseFails(i) ==
    LET source == effectiveSources[i]
    IN  /\ source # "env"
        /\ fileSystem[source].exists
        /\ ~fileSystem[source].readable \/ parser # "builtin"

\* acc after what the sources at positions from, from - 1, ..., to supply is
\* written over it, in that order
RECURSIVE MergedDownTo(_, _, _)
MergedDownTo(acc, from, to) ==
    IF from < to THEN acc
    ELSE MergedDownTo(AssignEnv(acc, SuppliedBy(from)), from - 1, to)

\* the accumulator of loadSources when the pass for position i starts
AccumulatorBefore(i) == MergedDownTo(<<>>, Len(effectiveSources), i + 1)

\* C29: a failing source contributes nothing. For a file source whose read
\* or parse fails, the pass of loadSources for it leaves the accumulator with
\* the keys and values it held when the pass started, and the flat map of the
\* call is that accumulator with the sources of higher priority written over
\* it in their order.
C29_FailingSourceContributesNothing ==
    Called =>
        \A i \in 1..Len(effectiveSources) :
            ReadOrParseFails(i) =>
                LET before == AccumulatorBefore(i)
                    after == loadSource(Loaded(before, <<>>), effectiveSources[i],
                                        processEnv, fileSystem, parser)
                IN  /\ after.merged = before
                    /\ merged = MergedDownTo(before, i - 1, 1)

\* a call whose first source is a file that holds pairs and on which the
\* parser throws, after a source of lower priority supplied pairs: the flat
\* map holds the latter only
C29_Witness ==
    /\ Called
    /\ Len(effectiveSources) = 2
    /\ ReadOrParseFails(1)
    /\ parseEnvFile(fileSystem[effectiveSources[1]].content) # <<>>
    /\ AccumulatorBefore(1) # <<>>
    /\ merged = AccumulatorBefore(1)

\* the values an object or an array holds directly
Parts(x) ==
    CASE x.k = "obj" -> { OwnFields(x)[i].v : i \in 1..Len(OwnFields(x)) }
                            \cup { ProtoFields(x)[i].v : i \in 1..Len(ProtoFields(x)) }
      [] x.k = "arr" -> Range(x.v)
      [] OTHER -> {}

\* the nesting depth of a value: 0 for a value that holds none
RECURSIVE Height(_)
Height(x) ==
    IF Parts(x) = {} THEN 0
    ELSE 1 + Max({ Height(p) : p \in Parts(x) })

\* the paths of the own fields of the object x, which path leads to, and of
\* the objects its own fields hold
RECURSIVE PathsUnder(_, _)
PathsUnder(x, path) ==
    IF x.k # "obj" THEN {}
    ELSE UNION { {Append(path, OwnFields(x)[i].n)}
                     \cup PathsUnder(OwnFields(x)[i].v, Append(path, OwnFields(x)[i].n)) :
                 i \in 1..Len(OwnFields(x)) }

\* the paths of the array elements generated for the top-level field k and
\* of their fields
ElementPaths(k) ==
    LET I == detectArrayIndices(buildEnvVarName(prefix, k), merged)
        after == Get(target, k)
    IN  IF k \in PositionalFields /\ I # <<>> /\ isArray(after) /\ Len(after.v) = Len(I)
        THEN UNION { {<<k, IntToStr(I[p])>>}
                         \cup PathsUnder(after.v[p], <<k, IntToStr(I[p])>>) :
                     p \in 1..Len(I) }
        ELSE {}

\* every call entered from another was given a value the caller's object or
\* template holds directly, a value of smaller nesting depth
StrictDescent ==
    \A n \in 2..Len(frames) :
        LET caller == frames[n - 1]
            given == frames[n].subject
        IN  /\ given \in Parts(caller.obj) \cup Parts(caller.template)
            /\ Height(given) < Max({Height(caller.obj), Height(caller.template)})
            /\ Len(frames[n].path) = Len(caller.path) + 1

\* no field and no array element was visited twice
VisitedOnce == \A a, b \in 1..Len(visits) : visits[a] = visits[b] => a = b

\* after the call returned, every own field of the target, of the records and
\* composites nested in it and of the array elements generated was visited
AllVisited ==
    (phase = "done" /\ err = NoError) =>
        /\ PathsUnder(target, <<>>) \subseteq Range(visits)
        /\ \A k \in Range(OwnKeys(target)) : ElementPaths(k) \subseteq Range(visits)

\* a call that has not returned or thrown has a running call, whose loop
\* goes on or is over
NeverStuck == phase = "running" => frames # <<>>

\* C30: termination. A call of parse without overrides, for a template of
\* finite acyclic nesting, a finite flat map and a sources list, returns or
\* throws; until then every call it enters from loadNestedFromEnv,
\* applyComplexObject, parseObjectPropertiesRecursive or a loop above them is
\* given a value its caller's object holds directly, no field or generated
\* array element is visited twice, and when it has returned every own field
\* of every nested record, composite and generated element has been visited.
C30_Termination ==
    /\ [](StrictDescent /\ VisitedOnce /\ AllVisited /\ NeverStuck)
    /\ <>(phase = "done")

\* a call that returned after it descended two levels below the target
C30_Witness ==
    /\ phase = "done"
    /\ err = NoError
    /\ \E a \in 1..Len(visits) : Len(visits[a]) = 3
    /\ target # prev

=============================================================================
